---- MODULE Spec2Model ----
(***************************************************************************)
(* Model of the adaptive network-health monitor of vimeo-monitor           *)
(* (src/vimeo_monitor/network_monitor.py, class NetworkMonitor).           *)
(*                                                                         *)
(* State: the target registry, the per-target metrics map, the overall     *)
(* status, the monitoring mode, the lifecycle flag, the monitor-loop       *)
(* threads (program counter and locals of each) and the caller thread.     *)
(* A loop thread takes one step per method call of _monitoring_loop; a     *)
(* section executed under self._lock is one step.                          *)
(***************************************************************************)
EXTENDS Integers, Sequences, FiniteSets, TLC

VARIABLES
    targets,            \* self.targets: list of NetworkTarget
    target_metrics,     \* self.target_metrics: name -> NetworkMetrics
    overall_status,     \* self.overall_status
    monitoring_mode,    \* self.monitoring_mode
    mode_change_count,  \* self.mode_change_count
    mode_change_age,    \* seconds since self.last_mode_change, up to RecentChange
    current_interval,   \* self.current_interval
    fallback_strategy,  \* self.fallback_strategy
    running,            \* self.running
    monitor_thread,     \* self.monitor_thread (0 = None)
    pc,                 \* position of every loop thread
    loc,                \* locals of every loop thread
    caller_pc,          \* position of the caller thread
    call,               \* the public call the caller made last
    attempts,           \* connection attempts made so far
    calls,              \* public calls made so far
    limits,             \* exploration limits of the specification
    lock                \* self._lock: its holder and the with statement entered

vars == <<targets, target_metrics, overall_status, monitoring_mode,
          mode_change_count, mode_change_age, current_interval, fallback_strategy, running,
          monitor_thread, pc, loc, caller_pc, call, attempts, calls, limits, lock>>

-----------------------------------------------------------------------------
(* Bounds of the exploration *)

MaxThreads == 2
MaxTargets == 2
MaxCalls == 3
MaxAttempts == 2
SeqAttempts == 9
LongAttempts == 13
FairCalls == 2
FairAttempts == 2
ConfAttempts == 11
ApiCalls == 3
FreeAttempts == 3
RecoverAttempts == 4
CountCap == 5
WindowAttempts == 204
CascadeAttempts == 4
QuietAttempts == 4
QuietCalls == 1
LockAttempts == 2
LockCalls == 1

Threads == 1..MaxThreads

-----------------------------------------------------------------------------
(* Enumerations and data types *)

HEALTHY == "healthy"
DEGRADED == "degraded"
FAILING == "failing"
OFFLINE == "offline"
UNKNOWN == "unknown"
NetworkStatus == {HEALTHY, DEGRADED, FAILING, OFFLINE, UNKNOWN}

NORMAL == "normal"
MODE_DEGRADED == "degraded"
FAILURE == "failure"
RECOVERY == "recovery"
MonitoringMode == {NORMAL, MODE_DEGRADED, FAILURE, RECOVERY}

\* error = None is the empty sequence; an error text is a sequence of parts
None == <<>>

ConnectivityTest(success, response_time, error) ==
    [success |-> success, response_time |-> response_time, error |-> error]

RecentMaxLen == 100

\* uptime_percent is the exact ratio num / den (a float in the program)
NetworkMetrics ==
    [total_tests |-> 0, successful_tests |-> 0, failed_tests |-> 0,
     current_status |-> UNKNOWN,
     consecutive_failures |-> 0, consecutive_successes |-> 0,
     uptime_percent |-> [num |-> 100, den |-> 1],
     average_response_time |-> [sum |-> 0, n |-> 1],
     recent_tests |-> <<>>]

NetworkTarget(name, host, critical, priority, fallback_hosts) ==
    [name |-> name, host |-> host, critical |-> critical,
     priority |-> priority, fallback_hosts |-> fallback_hosts]

FallbackStrategy ==
    [normal_interval |-> 30, degraded_interval |-> 45,
     failure_interval |-> 60, recovery_interval |-> 15,
     degraded_threshold |-> 2, failure_threshold |-> 4,
     recovery_threshold |-> 3,
     enable_priority_monitoring |-> TRUE, critical_only_in_failure |-> TRUE,
     enable_endpoint_fallback |-> TRUE,
     enable_adaptive_backoff |-> TRUE, max_backoff_multiplier |-> 3]

\* The targets a caller constructs and registers
TargetA == NetworkTarget("a", "ha", TRUE, 1, <<>>)
TargetB == NetworkTarget("b", "hb", TRUE, 1, <<"h1", "h2">>)
TargetC == NetworkTarget("c", "hc", FALSE, 2, <<"h1">>)
TargetD == NetworkTarget("d", "hd", FALSE, 3, <<>>)
TargetPool == {TargetA, TargetB, TargetC, TargetD}
Names == {tg.name : tg \in TargetPool}

-----------------------------------------------------------------------------
(* Connectivity probes and the fallback cascade *)

\* The response times a probe can take
ResponseTimes == {1, 3}

\* One probe of one host; ok is what the network answers and response_time
\* the time the answer took
TestTargetConnectivity(host, ok, response_time) ==
    IF ok THEN ConnectivityTest(TRUE, response_time, None)
    ELSE ConnectivityTest(FALSE, response_time, <<"connection failed:", host>>)

\* The for loop over target.fallback_hosts, from position i on; up is the
\* set of fallback hosts that answer and times the time each host takes;
\* probed lists the hosts tried so far
RECURSIVE TryFallbackHosts(_, _, _, _, _, _)
TryFallbackHosts(target, up, times, i, probed, primary_result) ==
    IF i > Len(target.fallback_hosts)
    THEN [result |-> primary_result, probed |-> probed]
    ELSE LET fallback_host == target.fallback_hosts[i]
             fallback_result ==
                 TestTargetConnectivity(fallback_host, fallback_host \in up,
                                        times[fallback_host])
         IN  IF fallback_result.success
             THEN [result |-> ConnectivityTest(TRUE, fallback_result.response_time,
                                               <<"fallback:", fallback_host>>),
                   probed |-> Append(probed, fallback_host)]
             ELSE TryFallbackHosts(target, up, times, i + 1,
                                   Append(probed, fallback_host), primary_result)

TestTargetWithFallback_Reversed(strategy, target, primary_ok, up, times) ==
    LET primary_result ==
            TestTargetConnectivity(target.host, primary_ok, times[target.host])
        hosts == target.fallback_hosts
        reversed == [target EXCEPT !.fallback_hosts =
                        [i \in DOMAIN hosts |-> hosts[Len(hosts) + 1 - i]]]
    IN  IF primary_result.success \/ ~strategy.enable_endpoint_fallback
        THEN [result |-> primary_result, probed |-> <<target.host>>]
        ELSE TryFallbackHosts(reversed, up, times, 1, <<target.host>>, primary_result)

TestTargetWithFallback_LastFailure(strategy, target, primary_ok, up, times) ==
    LET primary_result ==
            TestTargetConnectivity(target.host, primary_ok, times[target.host])
        r == TryFallbackHosts(target, up, times, 1, <<target.host>>, primary_result)
    IN  IF primary_result.success \/ ~strategy.enable_endpoint_fallback
        THEN [result |-> primary_result, probed |-> <<target.host>>]
        ELSE IF r.result.success THEN r
        ELSE [r EXCEPT !.result =
                 TestTargetConnectivity(r.probed[Len(r.probed)], FALSE,
                                        times[r.probed[Len(r.probed)]])]

\* A variant that tries the fallback hosts whatever the strategy says
TestTargetWithFallback_AlwaysCascade(strategy, target, primary_ok, up, times) ==
    LET primary_result ==
            TestTargetConnectivity(target.host, primary_ok, times[target.host])
    IN  IF primary_result.success
        THEN [result |-> primary_result, probed |-> <<target.host>>]
        ELSE TryFallbackHosts(target, up, times, 1, <<target.host>>, primary_result)

\* _test_target_with_fallback: the result and the hosts probed, in order
TestTargetWithFallback(strategy, target, primary_ok, up, times) ==
    LET primary_result ==
            TestTargetConnectivity(target.host, primary_ok, times[target.host])
    IN  IF primary_result.success \/ ~strategy.enable_endpoint_fallback
        THEN [result |-> primary_result, probed |-> <<target.host>>]
        ELSE TryFallbackHosts(target, up, times, 1, <<target.host>>, primary_result)

\* The hosts a cascade for the target may probe
HostsOf(target) ==
    {target.host} \cup {target.fallback_hosts[i] : i \in DOMAIN target.fallback_hosts}

\* test.success and test.error and test.error.startswith("fallback:")
IsFallbackSuccess(test) ==
    test.success /\ Len(test.error) > 0 /\ test.error[1] = "fallback:"

-----------------------------------------------------------------------------
(* Metrics tracker *)

DequeAppend_Unbounded(q, x) == Append(q, x)

\* deque(maxlen=RecentMaxLen).append
DequeAppend(q, x) ==
    IF Len(q) >= RecentMaxLen THEN Append(Tail(q), x) ELSE Append(q, x)

\* A variant that rates a target Healthy at its first success
TargetStatus_EagerHealthy(strategy, metrics) ==
    IF metrics.consecutive_failures >= strategy.failure_threshold THEN FAILING
    ELSE IF metrics.consecutive_failures >= strategy.degraded_threshold THEN DEGRADED
    ELSE IF metrics.consecutive_successes >= 1 THEN HEALTHY
    ELSE metrics.current_status

\* The per-target status derived from the streak counters
TargetStatus(strategy, metrics) ==
    IF metrics.consecutive_failures >= strategy.failure_threshold THEN FAILING
    ELSE IF metrics.consecutive_failures >= strategy.degraded_threshold THEN DEGRADED
    ELSE IF metrics.consecutive_successes >= strategy.recovery_threshold THEN HEALTHY
    ELSE metrics.current_status

\* len([t for t in q if t.success])
RecentSuccesses(q) ==
    CHOOSE n \in {Cardinality({i \in DOMAIN window : window[i].success}) :
                     window \in {q}} : TRUE

UptimePercent_Lifetime(metrics) ==
    [num |-> 100 * metrics.successful_tests, den |-> metrics.total_tests]

\* (recent_successes / len(metrics.recent_tests)) * 100.0, the window being
\* non-empty after the append
UptimePercent(metrics) ==
    [num |-> 100 * RecentSuccesses(metrics.recent_tests),
     den |-> Len(metrics.recent_tests)]

\* sum(t.response_time for t in q if t.success), the results of the window
\* added up by response time
RECURSIVE SumSuccessfulTimes(_, _)
SumSuccessfulTimes(q, values) ==
    IF values = {} THEN 0
    ELSE LET v == CHOOSE x \in values : TRUE
         IN  v * Cardinality({i \in DOMAIN q :
                                q[i].success /\ q[i].response_time = v})
                + SumSuccessfulTimes(q, values \ {v})

\* The response times of the results in the window
TimesIn(q) == {q[i].response_time : i \in DOMAIN q}

\* average_response_time after the window has been updated, as the exact
\* ratio sum / n: assigned only when the window holds a successful test
AverageResponseTime(metrics) ==
    CHOOSE average \in
        {IF RecentSuccesses(q) > 0
         THEN [sum |-> SumSuccessfulTimes(q, TimesIn(q)), n |-> RecentSuccesses(q)]
         ELSE metrics.average_response_time : q \in {metrics.recent_tests}} : TRUE

UpdateTargetMetrics_NoReset(strategy, metrics, test_result) ==
    LET counted == [metrics EXCEPT !.total_tests = @ + 1]
        streaks ==
            IF test_result.success
            THEN [counted EXCEPT !.successful_tests = @ + 1,
                                 !.consecutive_successes = @ + 1]
            ELSE [counted EXCEPT !.failed_tests = @ + 1,
                                 !.consecutive_failures = @ + 1]
        recorded == [streaks EXCEPT !.recent_tests = DequeAppend(@, test_result)]
        averaged == [recorded EXCEPT !.average_response_time =
                                        AverageResponseTime(recorded)]
        rated == [averaged EXCEPT !.uptime_percent = UptimePercent(averaged)]
    IN  [rated EXCEPT !.current_status = TargetStatus(strategy, rated)]

\* The body of _update_target_metrics for one record
UpdateTargetMetrics(strategy, metrics, test_result) ==
    LET counted == [metrics EXCEPT !.total_tests = @ + 1]
        streaks ==
            IF test_result.success
            THEN [counted EXCEPT !.successful_tests = @ + 1,
                                 !.consecutive_successes = @ + 1,
                                 !.consecutive_failures = 0]
            ELSE [counted EXCEPT !.failed_tests = @ + 1,
                                 !.consecutive_failures = @ + 1,
                                 !.consecutive_successes = 0]
        recorded == [streaks EXCEPT !.recent_tests = DequeAppend(@, test_result)]
        averaged == [recorded EXCEPT !.average_response_time =
                                        AverageResponseTime(recorded)]
        rated == [averaged EXCEPT !.uptime_percent = UptimePercent(averaged)]
    IN  [rated EXCEPT !.current_status = TargetStatus(strategy, rated)]

-----------------------------------------------------------------------------
(* Status aggregator *)

\* list(q)[-n:]
LastN(q, n) == SubSeq(q, IF Len(q) > n THEN Len(q) - n + 1 ELSE 1, Len(q))

RecentFallbackSuccesses(metrics, n) ==
    Cardinality({i \in DOMAIN LastN(metrics.recent_tests, n) :
                    IsFallbackSuccess(LastN(metrics.recent_tests, n)[i])})

\* self.target_metrics[target.name] is defined for every registered target
MetricsComplete(tgs, tm) == \A i \in DOMAIN tgs : tgs[i].name \in DOMAIN tm

\* The rules of _update_overall_status, evaluated in order
Verdict_FallbackFirst(total_critical, critical_failures, any_degraded, fallback_successes) ==
    IF critical_failures > 0 /\ fallback_successes > 0 THEN DEGRADED
    ELSE IF total_critical > 0 /\ critical_failures >= total_critical THEN OFFLINE
    ELSE IF critical_failures > 0 THEN FAILING
    ELSE IF any_degraded \/ fallback_successes > 0 THEN DEGRADED
    ELSE HEALTHY

Verdict_NoFallbackMask(total_critical, critical_failures, any_degraded, fallback_successes) ==
    IF total_critical > 0 /\ critical_failures >= total_critical THEN OFFLINE
    ELSE IF critical_failures > 0 THEN FAILING
    ELSE IF any_degraded \/ fallback_successes > 0 THEN DEGRADED
    ELSE HEALTHY

Verdict_FallbackIgnored(total_critical, critical_failures, any_degraded, fallback_successes) ==
    IF total_critical > 0 /\ critical_failures >= total_critical THEN OFFLINE
    ELSE IF critical_failures > 0
         THEN IF fallback_successes > 0 THEN DEGRADED ELSE FAILING
    ELSE IF any_degraded THEN DEGRADED
    ELSE HEALTHY

Verdict(total_critical, critical_failures, any_degraded, fallback_successes) ==
    IF total_critical > 0 /\ critical_failures >= total_critical THEN OFFLINE
    ELSE IF critical_failures > 0
         THEN IF fallback_successes > 0 THEN DEGRADED ELSE FAILING
    ELSE IF any_degraded \/ fallback_successes > 0 THEN DEGRADED
    ELSE HEALTHY

\* As UpdateOverallStatus, every Failing target counted as a critical failure
UpdateOverallStatus_AnyFailure(tgs, tm) ==
    LET idx == DOMAIN tgs
        st(i) == tm[tgs[i].name].current_status
        fallback_successes ==
            Cardinality({i \in idx : RecentFallbackSuccesses(tm[tgs[i].name], 10) > 0})
        total_critical == Cardinality({i \in idx : tgs[i].critical})
        critical_failures == Cardinality({i \in idx : st(i) = FAILING})
        any_degraded == \E i \in idx : st(i) = DEGRADED
    IN  Verdict(total_critical, critical_failures, any_degraded, fallback_successes)

\* The verdict computed by _update_overall_status (needs MetricsComplete)
UpdateOverallStatus(tgs, tm) ==
    LET idx == DOMAIN tgs
        st(i) == tm[tgs[i].name].current_status
        fallback_successes ==
            Cardinality({i \in idx : RecentFallbackSuccesses(tm[tgs[i].name], 10) > 0})
        total_critical == Cardinality({i \in idx : tgs[i].critical})
        critical_failures ==
            Cardinality({i \in idx : tgs[i].critical /\ st(i) = FAILING})
        any_degraded ==
            \E i \in idx : IF tgs[i].critical THEN st(i) = DEGRADED
                           ELSE st(i) \in {DEGRADED, FAILING}
    IN  Verdict(total_critical, critical_failures, any_degraded, fallback_successes)

-----------------------------------------------------------------------------
(* Mode controller *)

\* The direct mapping from the overall status to a mode
ModeForStatus(status) ==
    IF status = HEALTHY THEN NORMAL
    ELSE IF status = DEGRADED THEN MODE_DEGRADED
    ELSE IF status \in {FAILING, OFFLINE} THEN FAILURE
    ELSE NORMAL

\* any(metrics.consecutive_failures > 0 for metrics in target_metrics.values())
RecentFailures(tm) == \E n \in DOMAIN tm : tm[n].consecutive_failures > 0

NewMode_NoHysteresis(old_mode, status, tm) == ModeForStatus(status)

NewMode_NoStabilityCheck(old_mode, status, tm) ==
    IF old_mode = FAILURE /\ ModeForStatus(status) = NORMAL THEN RECOVERY
    ELSE ModeForStatus(status)

\* A variant whose hysteresis looks at the wrong previous mode
NewMode_HysteresisFromDegraded(old_mode, status, tm) ==
    LET new_mode == ModeForStatus(status)
    IN  IF old_mode = MODE_DEGRADED /\ new_mode = NORMAL THEN RECOVERY
        ELSE IF old_mode = RECOVERY /\ new_mode = NORMAL /\ RecentFailures(tm)
             THEN RECOVERY
        ELSE new_mode

\* A variant whose hysteresis also holds back a computed Degraded mode
NewMode_RecoveryFromDegraded(old_mode, status, tm) ==
    LET new_mode == ModeForStatus(status)
    IN  IF old_mode = FAILURE /\ new_mode \in {NORMAL, MODE_DEGRADED}
        THEN RECOVERY
        ELSE IF old_mode = RECOVERY /\ new_mode = NORMAL /\ RecentFailures(tm)
             THEN RECOVERY
        ELSE new_mode

\* The mode chosen by _update_monitoring_mode, hysteresis included
NewMode(old_mode, status, tm) ==
    LET new_mode == ModeForStatus(status)
    IN  IF old_mode = FAILURE /\ new_mode = NORMAL THEN RECOVERY
        ELSE IF old_mode = RECOVERY /\ new_mode = NORMAL /\ RecentFailures(tm)
             THEN RECOVERY
        ELSE new_mode

\* mode_change_count after _update_monitoring_mode: incremented on a mode
\* change, then max(0, count - 1) when the new mode is Normal
NewModeChangeCount(old_mode, new_mode, count) ==
    IF new_mode # old_mode
    THEN LET incremented == count + 1
         IN  IF new_mode = NORMAL
             THEN (IF incremented - 1 > 0 THEN incremented - 1 ELSE 0)
             ELSE incremented
    ELSE count

-----------------------------------------------------------------------------
(* Adaptive scheduler *)

IsCritical(t) == t.critical
IsPriority(t) == t.critical \/ t.priority <= 2

GetTargetsForCurrentMode_AllInFailure(strategy, mode, tgs) ==
    IF ~strategy.enable_priority_monitoring
    THEN [shared |-> TRUE, list |-> <<>>]
    ELSE IF mode = MODE_DEGRADED
    THEN [shared |-> FALSE, list |-> SelectSeq(tgs, IsPriority)]
    ELSE [shared |-> TRUE, list |-> <<>>]

\* A variant whose Degraded mode selects the critical targets only
GetTargetsForCurrentMode_CriticalInDegraded(strategy, mode, tgs) ==
    IF ~strategy.enable_priority_monitoring
    THEN [shared |-> TRUE, list |-> <<>>]
    ELSE IF mode = FAILURE /\ strategy.critical_only_in_failure
    THEN [shared |-> FALSE, list |-> SelectSeq(tgs, IsCritical)]
    ELSE IF mode = MODE_DEGRADED
    THEN [shared |-> FALSE, list |-> SelectSeq(tgs, IsCritical)]
    ELSE [shared |-> TRUE, list |-> <<>>]

\* _get_targets_for_current_mode: shared is TRUE when the method returns
\* self.targets itself, FALSE when it returns a new filtered list
GetTargetsForCurrentMode(strategy, mode, tgs) ==
    IF ~strategy.enable_priority_monitoring
    THEN [shared |-> TRUE, list |-> <<>>]
    ELSE IF mode = FAILURE /\ strategy.critical_only_in_failure
    THEN [shared |-> FALSE, list |-> SelectSeq(tgs, IsCritical)]
    ELSE IF mode = MODE_DEGRADED
    THEN [shared |-> FALSE, list |-> SelectSeq(tgs, IsPriority)]
    ELSE [shared |-> TRUE, list |-> <<>>]

check_interval == 30
RecentChange == 300

BaseInterval(strategy, mode) ==
    IF mode = NORMAL THEN strategy.normal_interval
    ELSE IF mode = MODE_DEGRADED THEN strategy.degraded_interval
    ELSE IF mode = FAILURE THEN strategy.failure_interval
    ELSE IF mode = RECOVERY THEN strategy.recovery_interval
    ELSE strategy.normal_interval

\* min(1.0 + count * 0.2, max_backoff_multiplier), in tenths
BackoffFactor10(strategy, count) ==
    IF 10 + 2 * count < 10 * strategy.max_backoff_multiplier
    THEN 10 + 2 * count ELSE 10 * strategy.max_backoff_multiplier

\* A variant that applies the backoff factor whatever the age of the last
\* mode change
GetAdaptiveInterval_AlwaysBackoff(strategy, mode, count, age) ==
    IF ~strategy.enable_adaptive_backoff THEN check_interval
    ELSE (BaseInterval(strategy, mode) * BackoffFactor10(strategy, count)) \div 10

\* _get_adaptive_interval; age is the time since the last mode change
GetAdaptiveInterval(strategy, mode, count, age) ==
    IF ~strategy.enable_adaptive_backoff THEN check_interval
    ELSE IF age < RecentChange
         THEN (BaseInterval(strategy, mode) * BackoffFactor10(strategy, count)) \div 10
         ELSE BaseInterval(strategy, mode)

-----------------------------------------------------------------------------
(* Monitor loop: one thread running _monitoring_loop *)

NoTarget == NetworkTarget("", "", FALSE, 1, <<>>)
NoResult == ConnectivityTest(FALSE, 0, None)

\* The locals of a loop thread at the start of an iteration; unlocked names
\* the methods that have read self.targets or self.target_metrics outside
\* "with self._lock" in this iteration; selected, tested and registered are
\* the names of the targets the selection returned, of the targets tested
\* so far, and of the targets registered ever since the selection; episode
\* outlives the iteration: a mode update has set Failure mode and none has
\* set Recovery or Normal mode since; unrecovered: the mode update of this
\* iteration has set Normal mode during such an episode; recorded lists the
\* targets whose result this iteration has recorded, status and new_mode are
\* the overall status and the mode this iteration has computed; totals holds
\* total_tests of every record as it was when the iteration began
InitLoc ==
    [targets_to_test |-> [shared |-> FALSE, list |-> <<>>], idx |-> 0,
     target |-> NoTarget, test_result |-> NoResult, probed |-> <<>>,
     times |-> <<>>,
     answers |-> <<>>,
     old_mode |-> NORMAL, sleep_interval |-> 0, raised |-> FALSE,
     unlocked |-> {}, selected |-> <<>>, tested |-> <<>>, registered |-> {},
     episode |-> FALSE, unrecovered |-> FALSE,
     recorded |-> <<>>, status |-> UNKNOWN, new_mode |-> NORMAL,
     totals |-> <<>>]

LoopContinues_Always(flag) == TRUE

\* while self.running
LoopContinues(flag) == flag

\* A variant that walks the whole registry whatever the selection returned
IteratedList_Registry(t) == targets

\* The list the for loop of _run_adaptive_connectivity_tests walks: a
\* filtered copy, or self.targets itself as it is now
IteratedList(t) ==
    IF loc[t].targets_to_test.shared THEN targets ELSE loc[t].targets_to_test.list

\* The locals once _run_adaptive_connectivity_tests has returned or raised:
\* what the iteration selected, tested and computed is out of scope
Returned(locals) ==
    [locals EXCEPT !.selected = InitLoc.selected,
                   !.tested = InitLoc.tested,
                   !.registered = InitLoc.registered,
                   !.recorded = InitLoc.recorded,
                   !.times = InitLoc.times,
                   !.status = InitLoc.status,
                   !.new_mode = InitLoc.new_mode,
                   !.totals = InitLoc.totals]

LoopExcept_Unhandled(t) ==
    /\ pc' = [pc EXCEPT ![t] = "done"]
    /\ loc' = [loc EXCEPT ![t].raised = TRUE]

\* except Exception in _monitoring_loop: log, sleep the normal interval
LoopExcept(t) ==
    /\ pc' = [pc EXCEPT ![t] = "sleep"]
    /\ loc' = [loc EXCEPT ![t] = Returned(
                  [@ EXCEPT !.raised = TRUE,
                            !.sleep_interval = fallback_strategy.normal_interval])]

NamesOf(list) == [i \in DOMAIN list |-> list[i].name]

\* The targets in the list _get_targets_for_current_mode returns
SelectedList(strategy, mode, tgs) ==
    LET r == GetTargetsForCurrentMode(strategy, mode, tgs)
    IN  IF r.shared THEN tgs ELSE r.list

\* The loop condition; when true the iteration begins by selecting targets
LoopHead(t) ==
    /\ pc[t] = "while"
    /\ IF LoopContinues(running)
       THEN /\ attempts < limits.attempts \/ limits.settles
            /\ pc' = [pc EXCEPT ![t] = "for"]
            /\ loc' = [loc EXCEPT ![t] =
                        [InitLoc EXCEPT !.targets_to_test =
                            GetTargetsForCurrentMode(fallback_strategy,
                                                     monitoring_mode, targets),
                                        !.unlocked =
                                            {"_get_targets_for_current_mode"},
                                        !.selected =
                                            NamesOf(SelectedList(fallback_strategy,
                                                        monitoring_mode, targets)),
                                        !.registered =
                                            {targets[i].name : i \in DOMAIN targets},
                                        !.episode = loc[t].episode,
                                        !.totals =
                                            [n \in DOMAIN target_metrics |->
                                                target_metrics[n].total_tests]]]
       ELSE /\ pc' = [pc EXCEPT ![t] = "done"]
            /\ loc' = [loc EXCEPT ![t] = [InitLoc EXCEPT !.episode = loc[t].episode]]
    /\ UNCHANGED <<targets, target_metrics, overall_status, monitoring_mode,
                   mode_change_count, mode_change_age, current_interval,
                   fallback_strategy, running, monitor_thread, caller_pc, call,
                   attempts, calls, limits, lock>>

\* The iterator reads self.targets, outside the lock, when the list walked
\* is self.targets itself
IteratorReads(t) ==
    IF loc[t].targets_to_test.shared
    THEN {"_run_adaptive_connectivity_tests"} ELSE {}

\* for target in targets_to_test: the iterator's next()
NextTarget(t) ==
    /\ pc[t] = "for"
    /\ IF loc[t].idx < Len(IteratedList(t))
       THEN /\ loc' = [loc EXCEPT ![t].target = IteratedList(t)[loc[t].idx + 1],
                                  ![t].idx = @ + 1,
                                  ![t].unlocked = @ \cup IteratorReads(t)]
            /\ pc' = [pc EXCEPT ![t] = "probe"]
       ELSE /\ loc' = [loc EXCEPT ![t].unlocked = @ \cup IteratorReads(t)]
            /\ pc' = [pc EXCEPT ![t] = "aggregate"]
    /\ UNCHANGED <<targets, target_metrics, overall_status, monitoring_mode,
                   mode_change_count, mode_change_age, current_interval,
                   fallback_strategy, running, monitor_thread, caller_pc, call,
                   attempts, calls, limits, lock>>

\* Python integers are unbounded. A specification that follows the loop
\* for ever (limits.settles) stops counting connection attempts at
\* limits.attempts and keeps the counters of a metrics record at
\* limits.count at most, a value above every threshold they are compared to
AtMost(n, cap) == IF n > cap THEN cap ELSE n

Counted(n) == IF limits.settles THEN AtMost(n, limits.attempts) ELSE n

Saturated(metrics) ==
    IF limits.settles
    THEN [metrics EXCEPT !.total_tests = AtMost(@, limits.count),
                         !.successful_tests = AtMost(@, limits.count),
                         !.failed_tests = AtMost(@, limits.count),
                         !.consecutive_failures = AtMost(@, limits.count),
                         !.consecutive_successes = AtMost(@, limits.count)]
    ELSE metrics

\* _test_target_with_fallback(target) returns; the network decides, and
\* answers keeps what it answered to each probe made, in order
ProbeTarget(t) ==
    /\ pc[t] = "probe"
    /\ \E primary_ok \in BOOLEAN :
       \E up \in SUBSET {loc[t].target.fallback_hosts[i] :
                            i \in DOMAIN loc[t].target.fallback_hosts} :
       \E times \in [HostsOf(loc[t].target) -> limits.times] :
          LET r == TestTargetWithFallback(fallback_strategy, loc[t].target,
                                          primary_ok, up, times)
          IN  /\ loc' = [loc EXCEPT ![t].test_result = r.result,
                                    ![t].probed = r.probed,
                                    ![t].times = times,
                                    ![t].tested = Append(@, loc[t].target.name),
                                    ![t].answers =
                                        [i \in DOMAIN r.probed |->
                                            IF i = 1 THEN primary_ok
                                            ELSE r.probed[i] \in up]]
              /\ attempts' = Counted(attempts + Len(r.probed))
    /\ pc' = [pc EXCEPT ![t] = "update"]
    /\ UNCHANGED <<targets, target_metrics, overall_status, monitoring_mode,
                   mode_change_count, mode_change_age, current_interval,
                   fallback_strategy, running, monitor_thread, caller_pc, call,
                   calls, limits, lock>>

\* _update_target_metrics(target.name, test_result); a KeyError is caught by
\* the except clause of the for body, which builds a failed test
UpdateMetrics(t) ==
    /\ pc[t] = "update"
    /\ IF loc[t].target.name \in DOMAIN target_metrics
       THEN /\ target_metrics' =
                  [target_metrics EXCEPT ![loc[t].target.name] =
                      Saturated(UpdateTargetMetrics(fallback_strategy, @,
                                                    loc[t].test_result))]
            /\ pc' = [pc EXCEPT ![t] = "for"]
            /\ loc' = [loc EXCEPT ![t].recorded = Append(@, loc[t].target.name)]
       ELSE /\ target_metrics' = target_metrics
            /\ pc' = [pc EXCEPT ![t] = "record_failed"]
            /\ loc' = [loc EXCEPT ![t].test_result =
                          ConnectivityTest(FALSE, 0, <<"KeyError:", loc[t].target.name>>)]
    /\ UNCHANGED <<targets, overall_status, monitoring_mode,
                   mode_change_count, mode_change_age, current_interval,
                   fallback_strategy, running, monitor_thread, caller_pc, call,
                   attempts, calls, limits, lock>>

\* The except clause's _update_target_metrics(target.name, failed_test); a
\* KeyError here leaves _run_adaptive_connectivity_tests
RecordFailedTest(t) ==
    /\ pc[t] = "record_failed"
    /\ IF loc[t].target.name \in DOMAIN target_metrics
       THEN /\ target_metrics' =
                  [target_metrics EXCEPT ![loc[t].target.name] =
                      Saturated(UpdateTargetMetrics(fallback_strategy, @,
                                                    loc[t].test_result))]
            /\ pc' = [pc EXCEPT ![t] = "for"]
            /\ loc' = [loc EXCEPT ![t].recorded = Append(@, loc[t].target.name)]
       ELSE /\ target_metrics' = target_metrics
            /\ LoopExcept(t)
    /\ UNCHANGED <<targets, overall_status, monitoring_mode,
                   mode_change_count, mode_change_age, current_interval,
                   fallback_strategy, running, monitor_thread, caller_pc, call,
                   attempts, calls, limits, lock>>

\* _update_overall_status(); a registered target without a metrics record
\* raises KeyError before overall_status is assigned
UpdateStatus(t) ==
    /\ pc[t] = "aggregate"
    /\ IF MetricsComplete(targets, target_metrics)
       THEN /\ overall_status' = UpdateOverallStatus(targets, target_metrics)
            /\ pc' = [pc EXCEPT ![t] = "mode"]
            /\ loc' = [loc EXCEPT ![t].status = overall_status']
       ELSE /\ overall_status' = overall_status
            /\ LoopExcept(t)
    /\ UNCHANGED <<targets, target_metrics, monitoring_mode,
                   mode_change_count, mode_change_age, current_interval,
                   fallback_strategy, running, monitor_thread, caller_pc, call,
                   attempts, calls, limits, lock>>

\* The stability check reads self.target_metrics.values(), outside the lock
ModeReads(old_mode, status) ==
    IF old_mode = RECOVERY /\ ModeForStatus(status) = NORMAL
    THEN {"_update_monitoring_mode"} ELSE {}

\* _update_monitoring_mode()
UpdateMode(t) ==
    LET old_mode == monitoring_mode
        new_mode == NewMode(old_mode, overall_status, target_metrics)
    IN  /\ pc[t] = "mode"
        /\ monitoring_mode' = new_mode
        /\ mode_change_count' = NewModeChangeCount(old_mode, new_mode, mode_change_count)
        /\ mode_change_age' = IF new_mode # old_mode THEN 0 ELSE mode_change_age
        /\ loc' = [u \in Threads |->
                      [(IF u = t
                        THEN [loc[u] EXCEPT
                                 !.old_mode = old_mode,
                                 !.new_mode = new_mode,
                                 !.unlocked = @ \cup ModeReads(old_mode, overall_status),
                                 !.unrecovered = loc[u].episode /\ new_mode = NORMAL]
                        ELSE loc[u])
                       EXCEPT !.episode =
                                  \/ new_mode = FAILURE
                                  \/ loc[u].episode /\ new_mode = MODE_DEGRADED]]
        /\ pc' = [pc EXCEPT ![t] = "interval"]
        /\ UNCHANGED <<targets, target_metrics, overall_status, current_interval,
                       fallback_strategy, running, monitor_thread, caller_pc,
                       call, attempts, calls, limits, lock>>

\* sleep_interval = self._get_adaptive_interval(); time.sleep begins
Sleep(t) ==
    /\ pc[t] = "interval"
    /\ loc' = [loc EXCEPT ![t] = Returned(
                  [@ EXCEPT !.sleep_interval =
                      GetAdaptiveInterval(fallback_strategy, monitoring_mode,
                                          mode_change_count, mode_change_age)])]
    /\ pc' = [pc EXCEPT ![t] = "sleep"]
    /\ UNCHANGED <<targets, target_metrics, overall_status, monitoring_mode,
                   mode_change_count, mode_change_age, current_interval,
                   fallback_strategy, running, monitor_thread, caller_pc, call,
                   attempts, calls, limits, lock>>

\* time.sleep returns: the interval has passed
Wake(t) ==
    /\ pc[t] = "sleep"
    /\ pc' = [pc EXCEPT ![t] = "while"]
    /\ mode_change_age' =
          IF mode_change_age + loc[t].sleep_interval < RecentChange
          THEN mode_change_age + loc[t].sleep_interval ELSE RecentChange
    /\ UNCHANGED <<targets, target_metrics, overall_status, monitoring_mode,
                   mode_change_count, current_interval, fallback_strategy,
                   running, monitor_thread, loc, caller_pc, call, attempts,
                   calls, limits, lock>>

LoopStep(t) ==
    \/ LoopHead(t) \/ NextTarget(t) \/ ProbeTarget(t) \/ UpdateMetrics(t)
    \/ UpdateStatus(t) \/ UpdateMode(t) \/ Sleep(t) \/ Wake(t)

-----------------------------------------------------------------------------
(* The monitor with a fixed registry and its loop running *)

\* The caller's last call: idx, results and probes are the position of the
\* for loop of run_immediate_test, its results dict and, for every target
\* it tested, what the network answered to each probe made; unlocked is as
\* in InitLoc, for the call
NoCall ==
    [op |-> "none", arg |-> "", result |-> "None", joined |-> FALSE,
     idx |-> 0, results |-> <<>>, probes |-> <<>>, unlocked |-> {}]

\* Who holds the lock: nobody, the caller thread, or loop thread t
Free == -1
Caller == 0

\* The operation the caller is in when it has reached a with statement
NoOp == [name |-> "none", target |-> NetworkTarget("", "", FALSE, 1, <<>>),
         target_name |-> ""]

\* threading.Lock(): not held; acquired counts the with statements the
\* holder has entered, mark is where the holder was when it entered the last
Unlocked == [holder |-> Free, acquired |-> 0, mark |-> <<"", 0>>, op |-> NoOp]

FreshMetrics(tgs) == [n \in {tgs[i].name : i \in DOMAIN tgs} |-> NetworkMetrics]

SeqRegistries ==
    {<<TargetA>>, <<TargetB>>, <<TargetC>>, <<TargetA, TargetB>>,
     <<TargetA, TargetC>>, <<TargetA, TargetD>>, <<TargetC, TargetD>>}

\* __init__, the registry set up by the application, start_monitoring();
\* a registry of one target is followed for LongAttempts connection attempts
SeqInit ==
    /\ targets \in SeqRegistries
    /\ target_metrics = FreshMetrics(targets)
    /\ overall_status = UNKNOWN
    /\ monitoring_mode = NORMAL
    /\ mode_change_count = 0
    /\ mode_change_age = 0
    /\ fallback_strategy = FallbackStrategy
    /\ current_interval = fallback_strategy.normal_interval
    /\ running = TRUE
    /\ monitor_thread = 1
    /\ pc = [t \in Threads |-> IF t = 1 THEN "while" ELSE "none"]
    /\ loc = [t \in Threads |-> InitLoc]
    /\ caller_pc = "idle"
    /\ call = [NoCall EXCEPT !.op = "start_monitoring"]
    /\ attempts = 0
    /\ calls = 0
    /\ lock = Unlocked
    /\ limits = [attempts |-> IF Len(targets) = 1 THEN LongAttempts ELSE SeqAttempts,
                 calls |-> 0,
                 settles |-> FALSE, count |-> 0,
                 times |-> {1}]

SeqNext == \E t \in Threads : LoopStep(t)

SeqSpec == SeqInit /\ [][SeqNext]_vars

-----------------------------------------------------------------------------
(* The monitor with a configured fallback strategy *)

TargetE == NetworkTarget("e", "he", TRUE, 2, <<>>)

ConfRegistries ==
    {<<TargetA>>, <<TargetA, TargetD, TargetE>>, <<TargetD, TargetA>>,
     <<TargetC, TargetD, TargetA>>}

\* _load_fallback_config: the strategy after the configuration has set the
\* switches of the target selection
ConfStrategies ==
    {[FallbackStrategy EXCEPT !.enable_priority_monitoring = p,
                              !.critical_only_in_failure = c] : p, c \in BOOLEAN}

\* As SeqInit, with a configured strategy, for ConfAttempts connection attempts
ConfInit ==
    /\ targets \in ConfRegistries
    /\ target_metrics = FreshMetrics(targets)
    /\ overall_status = UNKNOWN
    /\ monitoring_mode = NORMAL
    /\ mode_change_count = 0
    /\ mode_change_age = 0
    /\ fallback_strategy \in ConfStrategies
    /\ current_interval = fallback_strategy.normal_interval
    /\ running = TRUE
    /\ monitor_thread = 1
    /\ pc = [t \in Threads |-> IF t = 1 THEN "while" ELSE "none"]
    /\ loc = [t \in Threads |-> InitLoc]
    /\ caller_pc = "idle"
    /\ call = [NoCall EXCEPT !.op = "start_monitoring"]
    /\ attempts = 0
    /\ calls = 0
    /\ lock = Unlocked
    /\ limits = [attempts |-> ConfAttempts, calls |-> 0,
                 settles |-> FALSE, count |-> 0,
                 times |-> {1}]

ConfSpec == ConfInit /\ [][SeqNext]_vars

\* _load_fallback_config: the strategy after the configuration has set the
\* backoff switch and the cap of the backoff factor
BackoffStrategies ==
    {[FallbackStrategy EXCEPT !.enable_adaptive_backoff = e,
                              !.max_backoff_multiplier = m] :
        e \in BOOLEAN, m \in {1, 3}}

\* As SeqInit for the registry of one target, with a configured strategy
BackoffInit ==
    /\ targets = <<TargetA>>
    /\ target_metrics = FreshMetrics(targets)
    /\ overall_status = UNKNOWN
    /\ monitoring_mode = NORMAL
    /\ mode_change_count = 0
    /\ mode_change_age = 0
    /\ fallback_strategy \in BackoffStrategies
    /\ current_interval = fallback_strategy.normal_interval
    /\ running = TRUE
    /\ monitor_thread = 1
    /\ pc = [t \in Threads |-> IF t = 1 THEN "while" ELSE "none"]
    /\ loc = [t \in Threads |-> InitLoc]
    /\ caller_pc = "idle"
    /\ call = [NoCall EXCEPT !.op = "start_monitoring"]
    /\ attempts = 0
    /\ calls = 0
    /\ lock = Unlocked
    /\ limits = [attempts |-> LongAttempts, calls |-> 0,
                 settles |-> FALSE, count |-> 0,
                 times |-> {1}]

BackoffSpec == BackoffInit /\ [][SeqNext]_vars

\* _load_fallback_config: the strategy after the configuration has set the
\* endpoint fallback switch
CascadeStrategies ==
    {[FallbackStrategy EXCEPT !.enable_endpoint_fallback = f] : f \in BOOLEAN}

\* Registries of one target with fallback hosts
CascadeRegistries == {<<TargetB>>, <<TargetC>>}

\* As SeqInit, with a configured strategy and probes of different durations
CascadeInit ==
    /\ targets \in CascadeRegistries
    /\ target_metrics = FreshMetrics(targets)
    /\ overall_status = UNKNOWN
    /\ monitoring_mode = NORMAL
    /\ mode_change_count = 0
    /\ mode_change_age = 0
    /\ fallback_strategy \in CascadeStrategies
    /\ current_interval = fallback_strategy.normal_interval
    /\ running = TRUE
    /\ monitor_thread = 1
    /\ pc = [t \in Threads |-> IF t = 1 THEN "while" ELSE "none"]
    /\ loc = [t \in Threads |-> InitLoc]
    /\ caller_pc = "idle"
    /\ call = [NoCall EXCEPT !.op = "start_monitoring"]
    /\ attempts = 0
    /\ calls = 0
    /\ lock = Unlocked
    /\ limits = [attempts |-> CascadeAttempts, calls |-> 0,
                 settles |-> FALSE, count |-> 0,
                 times |-> ResponseTimes]

CascadeSpec == CascadeInit /\ [][SeqNext]_vars

-----------------------------------------------------------------------------
(* The monitor with one target, followed until its window has overflowed *)

LongRegistries == {<<TargetA>>, <<TargetC>>}

\* As SeqInit, for WindowAttempts connection attempts
LongInit ==
    /\ targets \in LongRegistries
    /\ target_metrics = FreshMetrics(targets)
    /\ overall_status = UNKNOWN
    /\ monitoring_mode = NORMAL
    /\ mode_change_count = 0
    /\ mode_change_age = 0
    /\ fallback_strategy = FallbackStrategy
    /\ current_interval = fallback_strategy.normal_interval
    /\ running = TRUE
    /\ monitor_thread = 1
    /\ pc = [t \in Threads |-> IF t = 1 THEN "while" ELSE "none"]
    /\ loc = [t \in Threads |-> InitLoc]
    /\ caller_pc = "idle"
    /\ call = [NoCall EXCEPT !.op = "start_monitoring"]
    /\ attempts = 0
    /\ calls = 0
    /\ lock = Unlocked
    /\ limits = [attempts |-> WindowAttempts, calls |-> 0,
                 settles |-> FALSE, count |-> 0,
                 times |-> ResponseTimes]

\* The network answers freely during the first FreeAttempts connection
\* attempts; from then on every probe of a target ends as its last one did
Steady(t) ==
    (pc[t] = "probe" /\ attempts >= FreeAttempts)
        => LET recent == target_metrics[loc[t].target.name].recent_tests
           IN  loc'[t].test_result = recent[Len(recent)]

LongNext == \E t \in Threads : LoopStep(t) /\ Steady(t)

LongSpec == LongInit /\ [][LongNext]_vars

-----------------------------------------------------------------------------
(* The monitor followed for ever, the network having settled *)

RecoverRegistries == {<<TargetA, TargetC>>, <<TargetA, TargetD>>}

\* As SeqInit; the loop is followed without limit
RecoverInit ==
    /\ targets \in RecoverRegistries
    /\ target_metrics = FreshMetrics(targets)
    /\ overall_status = UNKNOWN
    /\ monitoring_mode = NORMAL
    /\ mode_change_count = 0
    /\ mode_change_age = 0
    /\ fallback_strategy = FallbackStrategy
    /\ current_interval = fallback_strategy.normal_interval
    /\ running = TRUE
    /\ monitor_thread = 1
    /\ pc = [t \in Threads |-> IF t = 1 THEN "while" ELSE "none"]
    /\ loc = [t \in Threads |-> InitLoc]
    /\ caller_pc = "idle"
    /\ call = [NoCall EXCEPT !.op = "start_monitoring"]
    /\ attempts = 0
    /\ calls = 0
    /\ lock = Unlocked
    /\ limits = [attempts |-> RecoverAttempts, calls |-> 0,
                 settles |-> TRUE, count |-> CountCap,
                 times |-> {1}]

\* The network answers freely during the first limits.attempts connection
\* attempts; from then on the primary host of every target answers
NetworkSettled == attempts >= limits.attempts

Settled(t) == (pc[t] = "probe" /\ NetworkSettled) => loc'[t].answers[1]

RecoverNext == \E t \in Threads : LoopStep(t) /\ Settled(t)

\* The loop thread is scheduled fairly: every probe, locked section and
\* sleep it has started returns
RecoverSpec == RecoverInit /\ [][RecoverNext]_vars /\ WF_vars(RecoverNext)

-----------------------------------------------------------------------------
(* Public operations, called from the caller thread *)

\* The position of the first target named name in tgs, 0 if there is none
FirstIndex(tgs, name) ==
    IF \E i \in DOMAIN tgs : tgs[i].name = name
    THEN CHOOSE i \in DOMAIN tgs :
            /\ tgs[i].name = name
            /\ \A j \in DOMAIN tgs : tgs[j].name = name => i <= j
    ELSE 0

\* del tgs[i]
DeleteAt(tgs, i) == SubSeq(tgs, 1, i - 1) \o SubSeq(tgs, i + 1, Len(tgs))

\* add_target(target), under the lock
AddTarget(target) ==
    /\ caller_pc = "idle"
    /\ calls < limits.calls
    /\ Len(targets) < MaxTargets
    /\ targets' = Append(targets, target)
    /\ target_metrics' =
          [n \in DOMAIN target_metrics \cup {target.name} |->
              IF n = target.name THEN NetworkMetrics ELSE target_metrics[n]]
    /\ call' = [NoCall EXCEPT !.op = "add_target", !.arg = target.name]
    /\ calls' = calls + 1
    /\ UNCHANGED <<overall_status, monitoring_mode, mode_change_count,
                   mode_change_age, current_interval, fallback_strategy,
                   running, monitor_thread, pc, loc, caller_pc, attempts, limits, lock>>

\* remove_target(target_name), under the lock; del self.target_metrics[...]
\* raises KeyError after the list entry is gone when the record is missing
RemoveTarget(target_name) ==
    LET i == FirstIndex(targets, target_name)
    IN  /\ caller_pc = "idle"
        /\ calls < limits.calls
        /\ IF i > 0
           THEN /\ targets' = DeleteAt(targets, i)
                /\ loc' = [t \in Threads |->
                              [loc[t] EXCEPT !.registered = @ \ {target_name}]]
                /\ IF target_name \in DOMAIN target_metrics
                   THEN /\ target_metrics' =
                              [n \in DOMAIN target_metrics \ {target_name} |->
                                  target_metrics[n]]
                        /\ call' = [NoCall EXCEPT !.op = "remove_target",
                                                  !.arg = target_name,
                                                  !.result = "True"]
                   ELSE /\ target_metrics' = target_metrics
                        /\ call' = [NoCall EXCEPT !.op = "remove_target",
                                                  !.arg = target_name,
                                                  !.result = "KeyError"]
           ELSE /\ UNCHANGED <<targets, target_metrics, loc>>
                /\ call' = [NoCall EXCEPT !.op = "remove_target",
                                          !.arg = target_name,
                                          !.result = "False"]
        /\ calls' = calls + 1
        /\ UNCHANGED <<overall_status, monitoring_mode, mode_change_count,
                       mode_change_age, current_interval, fallback_strategy,
                       running, monitor_thread, pc, caller_pc, attempts,
                       limits, lock>>

\* Thread objects that are not running a loop: never started, or finished
FreeThreads == {t \in Threads : pc[t] \in {"none", "done"}}

\* Thread.is_alive()
IsAlive(t) == t # 0 /\ pc[t] \notin {"none", "done"}

\* start_monitoring()
StartMonitoring ==
    /\ caller_pc = "idle"
    /\ calls < limits.calls
    /\ IF running
       THEN /\ UNCHANGED <<running, monitor_thread, pc, loc>>
            /\ call' = [NoCall EXCEPT !.op = "start_monitoring",
                                      !.result = "already running"]
       ELSE /\ FreeThreads # {}
            /\ LET t == CHOOSE u \in FreeThreads : \A v \in FreeThreads : u <= v
               IN  /\ running' = TRUE
                   /\ monitor_thread' = t
                   /\ pc' = [pc EXCEPT ![t] = "while"]
                   /\ loc' = [loc EXCEPT ![t] =
                                 [InitLoc EXCEPT !.episode = loc[t].episode]]
            /\ call' = [NoCall EXCEPT !.op = "start_monitoring"]
    /\ calls' = calls + 1
    /\ UNCHANGED <<targets, target_metrics, overall_status, monitoring_mode,
                   mode_change_count, mode_change_age, current_interval,
                   fallback_strategy, caller_pc, attempts, limits, lock>>

StopReturnsEarly_Never(flag) == FALSE

\* if not self.running: return
StopReturnsEarly(flag) == ~flag

\* stop_monitoring() up to the join
StopMonitoring ==
    /\ caller_pc = "idle"
    /\ calls < limits.calls
    /\ IF StopReturnsEarly(running)
       THEN /\ UNCHANGED <<running, caller_pc>>
            /\ call' = [NoCall EXCEPT !.op = "stop_monitoring",
                                      !.result = "not running"]
       ELSE /\ running' = FALSE
            /\ IF IsAlive(monitor_thread)
               THEN /\ caller_pc' = "join"
                    /\ call' = [NoCall EXCEPT !.op = "stop_monitoring",
                                              !.joined = TRUE]
               ELSE /\ caller_pc' = "idle"
                    /\ call' = [NoCall EXCEPT !.op = "stop_monitoring"]
    /\ calls' = calls + 1
    /\ UNCHANGED <<targets, target_metrics, overall_status, monitoring_mode,
                   mode_change_count, mode_change_age, current_interval,
                   fallback_strategy, monitor_thread, pc, loc, attempts, limits, lock>>

\* A loop thread inside a blocking call that outlasts the join timeout
Blocked(t) == pc[t] \in {"probe", "sleep"}

\* monitor_thread.join(timeout=10.0) returns: the thread has ended, or the
\* timeout has run out while the thread sleeps or probes
StopJoinReturns ==
    /\ caller_pc = "join"
    /\ ~IsAlive(monitor_thread) \/ Blocked(monitor_thread)
    /\ caller_pc' = "idle"
    /\ call' = [call EXCEPT !.result =
                  IF IsAlive(monitor_thread) THEN "join timed out" ELSE "joined"]
    /\ UNCHANGED <<targets, target_metrics, overall_status, monitoring_mode,
                   mode_change_count, mode_change_age, current_interval,
                   fallback_strategy, running, monitor_thread, pc, loc,
                   attempts, calls, limits, lock>>

\* test_result.success and test_result.error and
\* test_result.error.startswith("fallback:"), as Python evaluates it
UsedFallback(test) ==
    IF ~test.success THEN "False"
    ELSE IF test.error = None THEN "None"
    ELSE IF test.error[1] = "fallback:" THEN "True" ELSE "False"

\* results[name] = entry
SetItem(results, name, entry) ==
    [n \in DOMAIN results \cup {name} |-> IF n = name THEN entry ELSE results[n]]

\* run_immediate_test() up to the for loop; the lock is not taken
RunImmediateTest ==
    /\ caller_pc = "idle"
    /\ calls < limits.calls
    /\ caller_pc' = "immediate"
    /\ call' = [NoCall EXCEPT !.op = "run_immediate_test"]
    /\ calls' = calls + 1
    /\ UNCHANGED <<targets, target_metrics, overall_status, monitoring_mode,
                   mode_change_count, mode_change_age, current_interval,
                   fallback_strategy, running, monitor_thread, pc, loc,
                   attempts, limits, lock>>

\* As ImmediateProbe, the result of the cascade recorded as the loop records it
ImmediateProbe_Recording ==
    /\ caller_pc = "immediate"
    /\ call.idx < Len(targets)
    /\ LET target == targets[call.idx + 1]
       IN  \E primary_ok \in BOOLEAN :
           \E up \in SUBSET {target.fallback_hosts[i] :
                                i \in DOMAIN target.fallback_hosts} :
           \E times \in [HostsOf(target) -> limits.times] :
              LET r == TestTargetWithFallback(fallback_strategy, target,
                                              primary_ok, up, times)
                  entry == [success |-> r.result.success,
                            response_time |-> r.result.response_time,
                            error |-> r.result.error,
                            used_fallback |-> UsedFallback(r.result)]
              IN  /\ call' = [call EXCEPT
                                !.unlocked = {"run_immediate_test"},
                                !.idx = @ + 1,
                                !.results = SetItem(@, target.name, entry),
                                !.probes = Append(@,
                                    [i \in DOMAIN r.probed |->
                                        IF i = 1 THEN primary_ok
                                        ELSE r.probed[i] \in up])]
                  /\ attempts' = attempts + Len(r.probed)
                  /\ target_metrics' =
                        IF target.name \in DOMAIN target_metrics
                        THEN [target_metrics EXCEPT ![target.name] =
                                 Saturated(UpdateTargetMetrics(fallback_strategy, @,
                                                               r.result))]
                        ELSE target_metrics
    /\ UNCHANGED <<targets, overall_status, monitoring_mode,
                   mode_change_count, mode_change_age, current_interval,
                   fallback_strategy, running, monitor_thread, pc, loc,
                   caller_pc, calls, limits, lock>>

\* One iteration of for target in self.targets: the cascade and the entry
ImmediateProbe ==
    /\ caller_pc = "immediate"
    /\ call.idx < Len(targets)
    /\ LET target == targets[call.idx + 1]
       IN  \E primary_ok \in BOOLEAN :
           \E up \in SUBSET {target.fallback_hosts[i] :
                                i \in DOMAIN target.fallback_hosts} :
           \E times \in [HostsOf(target) -> limits.times] :
              LET r == TestTargetWithFallback(fallback_strategy, target,
                                              primary_ok, up, times)
                  entry == [success |-> r.result.success,
                            response_time |-> r.result.response_time,
                            error |-> r.result.error,
                            used_fallback |-> UsedFallback(r.result)]
              IN  /\ call' = [call EXCEPT
                                !.unlocked = {"run_immediate_test"},
                                !.idx = @ + 1,
                                !.results = SetItem(@, target.name, entry),
                                !.probes = Append(@,
                                    [i \in DOMAIN r.probed |->
                                        IF i = 1 THEN primary_ok
                                        ELSE r.probed[i] \in up])]
                  /\ attempts' = attempts + Len(r.probed)
    /\ UNCHANGED <<targets, target_metrics, overall_status, monitoring_mode,
                   mode_change_count, mode_change_age, current_interval,
                   fallback_strategy, running, monitor_thread, pc, loc,
                   caller_pc, calls, limits, lock>>

\* The for loop is exhausted: return the results
ImmediateReturn ==
    /\ caller_pc = "immediate"
    /\ call.idx >= Len(targets)
    /\ caller_pc' = "idle"
    /\ call' = [call EXCEPT !.result = "results",
                            !.unlocked = {"run_immediate_test"}]
    /\ UNCHANGED <<targets, target_metrics, overall_status, monitoring_mode,
                   mode_change_count, mode_change_age, current_interval,
                   fallback_strategy, running, monitor_thread, pc, loc,
                   attempts, calls, limits, lock>>

CallerStep ==
    \/ \E target \in TargetPool : AddTarget(target)
    \/ \E target_name \in Names : RemoveTarget(target_name)
    \/ StartMonitoring
    \/ StopMonitoring
    \/ StopJoinReturns

-----------------------------------------------------------------------------
(* The monitor with its callers *)

InitTargets == <<TargetA>>

\* __init__ and the registry set up by the application
Init ==
    /\ targets = InitTargets
    /\ target_metrics = FreshMetrics(targets)
    /\ overall_status = UNKNOWN
    /\ monitoring_mode = NORMAL
    /\ mode_change_count = 0
    /\ mode_change_age = 0
    /\ fallback_strategy = FallbackStrategy
    /\ current_interval = fallback_strategy.normal_interval
    /\ running = FALSE
    /\ monitor_thread = 0
    /\ pc = [t \in Threads |-> "none"]
    /\ loc = [t \in Threads |-> InitLoc]
    /\ caller_pc = "idle"
    /\ call = NoCall
    /\ attempts = 0
    /\ calls = 0
    /\ lock = Unlocked
    /\ limits = [attempts |-> MaxAttempts, calls |-> MaxCalls,
                 settles |-> FALSE, count |-> 0,
                 times |-> {1}]

Next ==
    \/ CallerStep
    \/ \E t \in Threads : LoopStep(t) \/ RecordFailedTest(t)

Spec == Init /\ [][Next]_vars

\* The monitor before start_monitoring(), with a caller that changes the
\* registry and runs immediate tests
ApiInit ==
    /\ targets = InitTargets
    /\ target_metrics = FreshMetrics(targets)
    /\ overall_status = UNKNOWN
    /\ monitoring_mode = NORMAL
    /\ mode_change_count = 0
    /\ mode_change_age = 0
    /\ fallback_strategy = FallbackStrategy
    /\ current_interval = fallback_strategy.normal_interval
    /\ running = FALSE
    /\ monitor_thread = 0
    /\ pc = [t \in Threads |-> "none"]
    /\ loc = [t \in Threads |-> InitLoc]
    /\ caller_pc = "idle"
    /\ call = NoCall
    /\ attempts = 0
    /\ calls = 0
    /\ lock = Unlocked
    /\ limits = [attempts |-> 0, calls |-> ApiCalls,
                 settles |-> FALSE, count |-> 0,
                 times |-> {1}]

ApiNext ==
    \/ \E target \in TargetPool : AddTarget(target)
    \/ \E target_name \in Names : RemoveTarget(target_name)
    \/ RunImmediateTest
    \/ ImmediateProbe
    \/ ImmediateReturn

ApiSpec == ApiInit /\ [][ApiNext]_vars

\* The monitor after __init__ and start_monitoring(), its threads scheduled
\* fairly: every started step of a loop thread (probe, locked section,
\* sleep) returns, and so does the join
FairInit ==
    /\ targets = InitTargets
    /\ target_metrics = FreshMetrics(targets)
    /\ overall_status = UNKNOWN
    /\ monitoring_mode = NORMAL
    /\ mode_change_count = 0
    /\ mode_change_age = 0
    /\ fallback_strategy = FallbackStrategy
    /\ current_interval = fallback_strategy.normal_interval
    /\ running = TRUE
    /\ monitor_thread = 1
    /\ pc = [t \in Threads |-> IF t = 1 THEN "while" ELSE "none"]
    /\ loc = [t \in Threads |-> InitLoc]
    /\ caller_pc = "idle"
    /\ call = [NoCall EXCEPT !.op = "start_monitoring"]
    /\ attempts = 0
    /\ calls = 0
    /\ lock = Unlocked
    /\ limits = [attempts |-> FairAttempts, calls |-> FairCalls,
                 settles |-> FALSE, count |-> 0,
                 times |-> {1}]

\* The lifecycle calls, the removal of a target, and the loop threads
FairNext ==
    \/ \E target_name \in Names : RemoveTarget(target_name)
    \/ StartMonitoring
    \/ StopMonitoring
    \/ StopJoinReturns
    \/ \E t \in Threads : LoopStep(t) \/ RecordFailedTest(t)

FairSpec ==
    /\ FairInit
    /\ [][FairNext]_vars
    /\ \A t \in Threads : WF_vars(LoopStep(t) \/ RecordFailedTest(t))
    /\ WF_vars(StopJoinReturns)

-----------------------------------------------------------------------------
(* Properties of the registry and the lifecycle (Spec, FairSpec) *)

RegisteredNames == {targets[i].name : i \in DOMAIN targets}
LiveLoops == {t \in Threads : IsAlive(t)}

\* The step is the first step of a public call named op
Calls(op) == calls' = calls + 1 /\ call'.op = op

\* C1: target names in the registry are unique, every registered target has
\* a metrics record and every metrics record belongs to a registered target
C1_RegistryConsistent ==
    /\ \A i, j \in DOMAIN targets : targets[i].name = targets[j].name => i = j
    /\ \A i \in DOMAIN targets : targets[i].name \in DOMAIN target_metrics
    /\ DOMAIN target_metrics \subseteq RegisteredNames

\* C2: at most one monitor-loop thread is executing at any moment
C2_AtMostOneLoop == Cardinality(LiveLoops) <= 1

\* C3: stop_monitoring called while the monitor is not running returns at
\* once, joins no thread and changes nothing of the monitor
C3_StopIdempotent ==
    [][(Calls("stop_monitoring") /\ ~running)
        => /\ caller_pc' = "idle"
           /\ ~call'.joined
           /\ UNCHANGED <<targets, target_metrics, overall_status,
                          monitoring_mode, mode_change_count, mode_change_age,
                          current_interval, fallback_strategy, running,
                          monitor_thread, pc, loc>>]_vars

C3_Witness ==
    /\ call.op = "stop_monitoring"
    /\ call.result = "not running"
    /\ IsAlive(monitor_thread)

\* C4: stop_monitoring does not touch the position or the locals of a loop
\* thread; a loop thread that finds the flag cleared at its loop condition
\* ends instead of starting a cycle; and if the flag stays cleared, every
\* loop thread eventually ends
C4_CooperativeCancellation ==
    /\ [][(call'.op = "stop_monitoring" /\ <<calls, caller_pc>>' # <<calls, caller_pc>>)
            => UNCHANGED <<pc, loc>>]_vars
    /\ [][\A t \in Threads :
            (pc[t] = "while" /\ ~running /\ pc'[t] # pc[t]) => pc'[t] = "done"]_vars
    /\ []([]~running => <>(LiveLoops = {}))

C4_Witness ==
    /\ call.op = "stop_monitoring"
    /\ ~running
    /\ monitor_thread # 0
    /\ pc[monitor_thread] = "done"
    /\ attempts > 0

\* C5: a loop thread ends only by finding the flag cleared at its loop
\* condition; an exception raised inside an iteration puts the thread to
\* sleep for the normal interval, after which it is back at the loop
\* condition, and with the flag set it starts another iteration
C5_LoopSurvivesExceptions ==
    [][\A t \in Threads :
        /\ (pc[t] # "done" /\ pc'[t] = "done") => (pc[t] = "while" /\ ~running)
        /\ (~loc[t].raised /\ loc'[t].raised)
            => /\ pc'[t] = "sleep"
               /\ loc'[t].sleep_interval = fallback_strategy.normal_interval
        /\ (pc[t] = "sleep" /\ loc[t].raised /\ pc'[t] # pc[t]) => pc'[t] = "while"
        /\ (pc[t] = "while" /\ running /\ pc'[t] # pc[t]) => pc'[t] = "for"]_vars

C5_Witness ==
    \E t \in Threads :
        /\ pc[t] = "sleep"
        /\ loc[t].raised
        /\ loc[t].sleep_interval = 30
        /\ C1_RegistryConsistent

-----------------------------------------------------------------------------
(* Properties of the mode controller and the status aggregator (SeqSpec) *)

\* The loop thread t has just run _update_overall_status
JustAggregated(t) == pc[t] = "mode"
\* The loop thread t has just run _update_monitoring_mode
JustUpdatedMode(t) == pc[t] = "interval"

Registered == {targets[i] : i \in DOMAIN targets}
CriticalTargets == {tg \in Registered : tg.critical}
StatusOf(tg) == target_metrics[tg.name].current_status
FailingCritical == {tg \in CriticalTargets : StatusOf(tg) = FAILING}
\* One of the last ten results of tg is a success that carries "fallback:<host>"
UsedFallbackRecently(tg) ==
    LET recent == target_metrics[tg.name].recent_tests
    IN  \E i \in DOMAIN recent :
           /\ i > Len(recent) - 10
           /\ recent[i].success
           /\ \E h \in {tg.fallback_hosts[j] : j \in DOMAIN tg.fallback_hosts} :
                 recent[i].error = <<"fallback:", h>>
AnyFallbackRecently == \E tg \in Registered : UsedFallbackRecently(tg)

\* C6: a mode update made in Failure mode with a Healthy status gives
\* Recovery, and no step takes the mode from Failure straight to Normal
C6_FailureLeavesThroughRecovery ==
    [][/\ \A t \in Threads :
            (pc[t] = "mode" /\ pc'[t] = "interval"
                /\ monitoring_mode = FAILURE /\ overall_status = HEALTHY)
            => monitoring_mode' = RECOVERY
       /\ monitoring_mode = FAILURE => monitoring_mode' # NORMAL]_vars

C6_Witness ==
    \E t \in Threads :
        /\ JustUpdatedMode(t)
        /\ loc[t].old_mode = FAILURE
        /\ overall_status = HEALTHY
        /\ monitoring_mode = RECOVERY

\* C7: a mode update made in Recovery mode with a Healthy status keeps
\* Recovery if a registered target has consecutive_failures > 0 and gives
\* Normal otherwise; every step from Recovery to Normal is taken when all
\* registered targets have consecutive_failures = 0
C7_RecoveryUntilNoFailures ==
    [][/\ \A t \in Threads :
            (pc[t] = "mode" /\ pc'[t] = "interval"
                /\ monitoring_mode = RECOVERY /\ overall_status = HEALTHY)
            => monitoring_mode' =
                 IF \E tg \in Registered :
                       target_metrics[tg.name].consecutive_failures > 0
                 THEN RECOVERY ELSE NORMAL
       /\ (monitoring_mode = RECOVERY /\ monitoring_mode' = NORMAL)
            => \A tg \in Registered :
                  target_metrics[tg.name].consecutive_failures = 0]_vars

C7_Witness ==
    \E t \in Threads :
        /\ JustUpdatedMode(t)
        /\ loc[t].old_mode = RECOVERY
        /\ overall_status = HEALTHY
        /\ monitoring_mode = RECOVERY
        /\ \E tg \in Registered : target_metrics[tg.name].consecutive_failures > 0

\* C8: right after an aggregation the status is Offline exactly when there
\* is a critical target and every critical target is Failing, whatever the
\* fallback usage and the non-critical targets
C8_OfflineIffAllCriticalFailing ==
    \A t \in Threads :
        JustAggregated(t) =>
            (overall_status = OFFLINE
                <=> (CriticalTargets # {} /\ FailingCritical = CriticalTargets))

C8_Witness ==
    \E t \in Threads :
        /\ JustAggregated(t)
        /\ overall_status = OFFLINE
        /\ AnyFallbackRecently
        /\ \E tg \in Registered : ~tg.critical /\ StatusOf(tg) # FAILING

\* C9: right after an aggregation in which some but not all critical targets
\* are Failing, the status is Degraded if a target has a recent fallback
\* success and Failing otherwise
C9_PartialCriticalFailure ==
    \A t \in Threads :
        (JustAggregated(t) /\ FailingCritical # {}
            /\ FailingCritical # CriticalTargets)
        => overall_status = IF AnyFallbackRecently THEN DEGRADED ELSE FAILING

C9_Witness ==
    \E t \in Threads :
        /\ JustAggregated(t)
        /\ FailingCritical # {}
        /\ FailingCritical # CriticalTargets
        /\ AnyFallbackRecently
        /\ overall_status = DEGRADED

\* C10: right after an aggregation in which no critical target is Failing,
\* the status is Degraded if a target is Degraded, a non-critical target is
\* Failing or a target has a recent fallback success, and Healthy otherwise
C10_NoCriticalFailure ==
    \A t \in Threads :
        (JustAggregated(t) /\ FailingCritical = {})
        => overall_status =
             IF \/ \E tg \in Registered : StatusOf(tg) = DEGRADED
                \/ \E tg \in Registered : ~tg.critical /\ StatusOf(tg) = FAILING
                \/ AnyFallbackRecently
             THEN DEGRADED ELSE HEALTHY

C10_Witness ==
    \E t \in Threads :
        /\ JustAggregated(t)
        /\ FailingCritical = {}
        /\ \E tg \in Registered : ~tg.critical /\ StatusOf(tg) = FAILING
        /\ ~AnyFallbackRecently
        /\ overall_status = DEGRADED

-----------------------------------------------------------------------------
(* Properties of the metrics tracker (Spec, LongSpec) *)

\* The step is a metrics update made by the loop thread t
UpdatesMetrics(t) == pc[t] \in {"update", "record_failed"} /\ pc'[t] = "for"

\* C11: in every state, no metrics record has consecutive_failures and
\* consecutive_successes both above zero; a metrics update with a successful
\* result adds one to consecutive_successes and sets consecutive_failures
\* to 0, and one with a failed result does the converse
C11_StreaksExclusive ==
    /\ [](\A n \in DOMAIN target_metrics :
            ~(target_metrics[n].consecutive_failures > 0
                /\ target_metrics[n].consecutive_successes > 0))
    /\ [][\A t \in Threads :
            UpdatesMetrics(t) =>
                LET before == target_metrics[loc[t].target.name]
                    after == target_metrics'[loc[t].target.name]
                IN  IF loc[t].test_result.success
                    THEN /\ after.consecutive_successes = before.consecutive_successes + 1
                         /\ after.consecutive_failures = 0
                    ELSE /\ after.consecutive_failures = before.consecutive_failures + 1
                         /\ after.consecutive_successes = 0]_vars

C11_Witness ==
    \E t \in Threads :
        /\ pc[t] = "for"
        /\ loc[t].idx > 0
        /\ loc[t].target.name \in DOMAIN target_metrics
        /\ target_metrics[loc[t].target.name].consecutive_failures = 1
        /\ target_metrics[loc[t].target.name].successful_tests > 0

\* C12: no window holds more than RecentMaxLen entries; a metrics update
\* appends the result at the end of the window, and when the window is full
\* it drops the first (oldest) entry and keeps the others in their order
C12_WindowBounded ==
    /\ [](\A n \in DOMAIN target_metrics :
            Len(target_metrics[n].recent_tests) <= RecentMaxLen)
    /\ [][\A t \in Threads :
            UpdatesMetrics(t) =>
                LET before == target_metrics[loc[t].target.name].recent_tests
                    after == target_metrics'[loc[t].target.name].recent_tests
                IN  IF Len(before) = RecentMaxLen
                    THEN /\ Len(after) = RecentMaxLen
                         /\ \A i \in 1..(RecentMaxLen - 1) : after[i] = before[i + 1]
                         /\ after[RecentMaxLen] = loc[t].test_result
                    ELSE after = Append(before, loc[t].test_result)]_vars

C12_Witness ==
    \E n \in DOMAIN target_metrics :
        /\ target_metrics[n].total_tests = RecentMaxLen + 1
        /\ Len(target_metrics[n].recent_tests) = RecentMaxLen
        /\ target_metrics[n].recent_tests[1] # target_metrics[n].recent_tests[2]

\* C13: in every state 0 <= uptime_percent <= 100; after a metrics update
\* uptime_percent = 100 * (successes in the window) / (size of the window)
C13_UptimeOverWindow ==
    /\ [](\A n \in DOMAIN target_metrics :
            LET u == target_metrics[n].uptime_percent
            IN  u.den > 0 /\ 0 <= u.num /\ u.num <= 100 * u.den)
    /\ [][\A t \in Threads :
            UpdatesMetrics(t) =>
                LET after == target_metrics'[loc[t].target.name]
                IN  after.uptime_percent.num * Len(after.recent_tests)
                      = 100 * RecentSuccesses(after.recent_tests)
                            * after.uptime_percent.den]_vars

\* The window ratio differs from the ratio over all results ever recorded
C13_Witness ==
    \E n \in DOMAIN target_metrics :
        LET m == target_metrics[n]
        IN  /\ m.total_tests > RecentMaxLen
            /\ m.uptime_percent.num * m.total_tests
                  # 100 * m.successful_tests * m.uptime_percent.den
            /\ m.uptime_percent.num > 0

-----------------------------------------------------------------------------
(* Properties of the fallback cascade and the target selection (SeqSpec) *)

\* The loop thread t has just returned from _test_target_with_fallback
JustProbed(t) == pc[t] = "update"

\* C14: after a cascade with endpoint fallback enabled and a failed primary
\* probe, the hosts probed are the primary and then a prefix of the
\* fallback list in its order; a fallback host is probed only if all hosts
\* before it failed; and if a fallback host answered, it is the last host
\* probed and the result is a success with error "fallback:<that host>"
C14_CascadeInOrder ==
    \A t \in Threads :
        (JustProbed(t) /\ fallback_strategy.enable_endpoint_fallback
            /\ ~loc[t].answers[1])
        => LET hosts == loc[t].target.fallback_hosts
               probed == loc[t].probed
               answers == loc[t].answers
               last == Len(probed)
           IN  /\ probed[1] = loc[t].target.host
               /\ last <= 1 + Len(hosts)
               /\ \A i \in 2..last : probed[i] = hosts[i - 1]
               /\ \A i \in 2..(last - 1) : ~answers[i]
               /\ last < 1 + Len(hosts) => answers[last]
               /\ (\E i \in 2..last : answers[i])
                    => loc[t].test_result
                         = ConnectivityTest(TRUE, loc[t].times[probed[last]],
                                            <<"fallback:", probed[last]>>)

\* The second of two fallback hosts answered after the first one failed
C14_Witness ==
    \E t \in Threads :
        /\ JustProbed(t)
        /\ Len(loc[t].target.fallback_hosts) = 2
        /\ loc[t].answers = <<FALSE, FALSE, TRUE>>
        /\ loc[t].test_result.error = <<"fallback:", loc[t].target.fallback_hosts[2]>>

\* C15: after a cascade in which no probe succeeded (the primary failed and
\* every fallback host, if any, failed) the result is the failure of the
\* probe of the primary host
C15_PrimaryFailureReturned ==
    \A t \in Threads :
        (JustProbed(t) /\ \A i \in DOMAIN loc[t].answers : ~loc[t].answers[i])
        => /\ loc[t].test_result
                = TestTargetConnectivity(loc[t].target.host, FALSE,
                                         loc[t].times[loc[t].target.host])
           /\ fallback_strategy.enable_endpoint_fallback
                => Len(loc[t].probed) = 1 + Len(loc[t].target.fallback_hosts)

C15_Witness ==
    \E t \in Threads :
        /\ JustProbed(t)
        /\ loc[t].answers = <<FALSE, FALSE, FALSE>>
        /\ loc[t].probed[3] # loc[t].target.host
        /\ ~loc[t].test_result.success
        /\ loc[t].test_result.error = <<"connection failed:", loc[t].target.host>>

\* The loop thread t has just returned from _get_targets_for_current_mode
JustSelected(t) == pc[t] = "for" /\ loc[t].idx = 0

\* The positions of the critical targets in the registry
CriticalPositions == {i \in DOMAIN targets : targets[i].critical}

\* list holds the critical targets of the registry, each once, in the order
\* of the registry
ExactlyCriticalInOrder(list) ==
    /\ Len(list) = Cardinality(CriticalPositions)
    /\ \A k \in DOMAIN list :
          \E i \in CriticalPositions :
             /\ Cardinality({j \in CriticalPositions : j < i}) = k - 1
             /\ list[k] = targets[i]

\* C16 as stated: with priority monitoring enabled, a selection made in
\* Failure mode returns exactly the critical targets, in registry order
C16_FailureSelectsCritical_Stated ==
    \A t \in Threads :
        (JustSelected(t) /\ fallback_strategy.enable_priority_monitoring
            /\ monitoring_mode = FAILURE)
        => ExactlyCriticalInOrder(IteratedList(t))

\* C16: with priority monitoring and critical_only_in_failure both enabled,
\* a selection made in Failure mode returns exactly the critical targets of
\* the registry, in registry order
C16_FailureSelectsCritical ==
    \A t \in Threads :
        (JustSelected(t) /\ fallback_strategy.enable_priority_monitoring
            /\ fallback_strategy.critical_only_in_failure
            /\ monitoring_mode = FAILURE)
        => ExactlyCriticalInOrder(IteratedList(t))

C16_Witness ==
    \E t \in Threads :
        /\ JustSelected(t)
        /\ fallback_strategy.enable_priority_monitoring
        /\ fallback_strategy.critical_only_in_failure
        /\ monitoring_mode = FAILURE
        /\ Len(targets) = 3
        /\ IteratedList(t) = <<targets[1], targets[3]>>

-----------------------------------------------------------------------------
(* Properties of the public operations (ApiSpec, Spec) *)

\* run_immediate_test has just returned
ImmediateReturned == call.op = "run_immediate_test" /\ call.result = "results"

\* C17: the results returned by run_immediate_test hold one entry per
\* registered target, and the entry of a target has used_fallback true
\* exactly when the primary probe of that target failed and one of its
\* fallback hosts answered, in which case success is true
C17_ImmediateTestResults ==
    ImmediateReturned =>
        /\ Cardinality(DOMAIN call.results) = Len(targets)
        /\ \A i \in DOMAIN targets :
              LET entry == call.results[targets[i].name]
                  answers == call.probes[i]
              IN  /\ (entry.used_fallback = "True")
                        <=> (~answers[1] /\ \E j \in 2..Len(answers) : answers[j])
                  /\ entry.used_fallback = "True" => entry.success

\* C18: no loop thread and no caller has read or written the registry or
\* the metrics map outside the lock
C18_AccessUnderLock ==
    /\ \A t \in Threads : loc[t].unlocked = {}
    /\ call.unlocked = {}

\* C19: remove_target(name) with a registered name returns True, removes
\* one registry entry, which has that name, and removes the metrics record
\* of that name and no other; with a name that is not registered it returns
\* False and changes neither the registry nor the metrics map
C19_RemoveTarget ==
    [][Calls("remove_target") =>
        LET name == call'.arg
        IN  IF name \in RegisteredNames
            THEN /\ call'.result = "True"
                 /\ \E i \in DOMAIN targets :
                       /\ targets[i].name = name
                       /\ targets' = DeleteAt(targets, i)
                 /\ DOMAIN target_metrics' = DOMAIN target_metrics \ {name}
                 /\ \A n \in DOMAIN target_metrics' :
                       target_metrics'[n] = target_metrics[n]
            ELSE /\ call'.result = "False"
                 /\ UNCHANGED <<targets, target_metrics>>]_vars

-----------------------------------------------------------------------------
(* Recovery (RecoverSpec) *)

\* C20: once every primary probe succeeds, the registry being fixed and the
\* loop scheduled fairly, overall_status eventually is Healthy and
\* monitoring_mode eventually is Normal
C20_RecoveryReached ==
    /\ NetworkSettled ~> (overall_status = HEALTHY)
    /\ NetworkSettled ~> (monitoring_mode = NORMAL)

-----------------------------------------------------------------------------
(* Properties of the probe cycle under concurrent callers (FairSpec, Spec) *)

\* The loop thread t is inside a probe cycle it has started
InCycle(t) == pc[t] \in {"for", "probe", "update", "record_failed", "aggregate", "mode", "interval"}

\* C21: a probe cycle that has started is not abandoned: the loop thread
\* goes on from the tests to the status aggregation, the mode update and
\* the interval, and goes to sleep only from there, whatever the callers do
C21_CycleCompletes ==
    [][\A t \in Threads :
        /\ (pc[t] # "sleep" /\ pc'[t] = "sleep") => pc[t] = "interval"
        /\ (InCycle(t) /\ pc'[t] # pc[t]) => (InCycle(t))' \/ pc'[t] = "sleep"]_vars

\* The number of times name occurs in the sequence of names
Count(names, name) == Cardinality({i \in DOMAIN names : names[i] = name})

\* C22: when the for loop of a cycle is exhausted, every target the
\* selection returned and that has been registered ever since has been
\* tested exactly once; during the cycle none has been tested more often
C22_SelectedTestedOnce ==
    \A t \in Threads :
        \A n \in loc[t].registered :
            /\ InCycle(t) => Count(loc[t].tested, n) <= Count(loc[t].selected, n)
            /\ pc[t] = "aggregate"
                 => Count(loc[t].tested, n) = Count(loc[t].selected, n)

-----------------------------------------------------------------------------
(* Properties of the mode controller and the scheduler (SeqSpec, ConfSpec) *)

\* The step of thread t is a call of _update_monitoring_mode
UpdatesMode(t) == pc[t] = "mode" /\ pc'[t] = "interval"

\* C23: a mode update that changes the mode, to Normal or any other mode,
\* sets last_mode_change to now and leaves mode_change_count exactly one
\* greater; a mode update that keeps the mode leaves last_mode_change alone
C23_ModeChangeRecorded ==
    [][\A t \in Threads :
        UpdatesMode(t) =>
            IF monitoring_mode' # monitoring_mode
            THEN /\ mode_change_age' = 0
                 /\ mode_change_count' = mode_change_count + 1
            ELSE mode_change_age' = mode_change_age]_vars

\* C24: a mode update that computes Normal while the mode is Normal takes
\* one from a positive mode_change_count and leaves a zero count at zero;
\* the count is never negative
C24_CountDecays ==
    [][\A t \in Threads :
        /\ mode_change_count' >= 0
        /\ (UpdatesMode(t) /\ monitoring_mode = NORMAL /\ monitoring_mode' = NORMAL)
             => mode_change_count' =
                  IF mode_change_count > 0 THEN mode_change_count - 1 ELSE 0]_vars

\* C25: right after a mode update the mode is Failure exactly when the
\* overall status is Failing or Offline, Degraded exactly when the status is
\* Degraded, and Normal or Recovery when the status is Healthy or Unknown,
\* whatever the mode was before
C25_ModeFollowsStatus ==
    [][\A t \in Threads :
        UpdatesMode(t) =>
            /\ monitoring_mode' = FAILURE <=> overall_status' \in {FAILING, OFFLINE}
            /\ monitoring_mode' = MODE_DEGRADED <=> overall_status' = DEGRADED
            /\ overall_status' \in {HEALTHY, UNKNOWN}
                 => monitoring_mode' \in {NORMAL, RECOVERY}]_vars

\* A mode update has just taken the mode from Failure straight to Degraded
C25_Witness ==
    \E t \in Threads :
        /\ pc[t] = "interval"
        /\ loc[t].old_mode = FAILURE
        /\ monitoring_mode = MODE_DEGRADED
        /\ overall_status = DEGRADED

\* C26: a cycle ends in Normal mode only if, since the last cycle that
\* ended in Failure mode, some cycle has ended in Recovery mode
C26_NormalOnlyThroughRecovery ==
    \A t \in Threads : ~loc[t].unrecovered

\* C26 as amended: a cycle that ends in Normal mode with no cycle ending in
\* Recovery mode since the last one that ended in Failure mode starts in
\* Degraded mode; the mode never goes from Failure straight to Normal
C26_NormalNotStraightFromFailure ==
    \A t \in Threads :
        /\ loc[t].unrecovered => loc[t].old_mode = MODE_DEGRADED
        /\ (pc[t] = "interval" /\ loc[t].old_mode = FAILURE)
             => monitoring_mode # NORMAL

\* A cycle has just ended in Normal mode after the mode went from Failure
\* to Degraded, with no Recovery in between
C26_Witness ==
    \E t \in Threads :
        /\ pc[t] = "interval"
        /\ loc[t].unrecovered
        /\ loc[t].old_mode = MODE_DEGRADED
        /\ monitoring_mode = NORMAL

\* The registered targets the selection of thread t's cycle left out
LeftOut(t) ==
    RegisteredNames \ {loc[t].selected[i] : i \in DOMAIN loc[t].selected}

\* C27: no step of a probe cycle changes the metrics record of a registered
\* target the selection left out, and the aggregation of the cycle counts
\* the last recorded status of those targets: the verdict is not Healthy
\* when one of them is rated Degraded or Failing
C27_UnprobedUntouched ==
    [][\A t \in Threads :
        (InCycle(t) /\ pc'[t] # pc[t]) =>
            \A n \in LeftOut(t) \cap DOMAIN target_metrics :
                /\ n \in DOMAIN target_metrics'
                /\ target_metrics'[n] = target_metrics[n]
                /\ (pc[t] = "aggregate" /\ pc'[t] = "mode"
                        /\ target_metrics[n].current_status \in {DEGRADED, FAILING})
                     => overall_status' \in {DEGRADED, FAILING, OFFLINE}]_vars

\* A cycle that tested a target and left another out has just aggregated,
\* and the target left out is the reason the verdict is Degraded
C27_Witness ==
    \E t \in Threads :
        /\ pc[t] = "mode"
        /\ loc[t].tested # <<>>
        /\ overall_status = DEGRADED
        /\ \E n \in LeftOut(t) \cap DOMAIN target_metrics :
              /\ target_metrics[n].current_status = DEGRADED
              /\ target_metrics[n].total_tests > 0
        /\ \A tg \in Registered :
              tg.name \notin LeftOut(t)
                  => target_metrics[tg.name].current_status = HEALTHY

\* The positions of the registry that hold a critical target or a target
\* of priority 1 or 2
PriorityPositions ==
    {i \in DOMAIN targets : targets[i].critical \/ targets[i].priority <= 2}

\* list holds the targets at the given positions of the registry, each
\* once, in the order of the registry
ExactlyAtPositions(list, positions) ==
    /\ Len(list) = Cardinality(positions)
    /\ \A k \in DOMAIN list :
          \E i \in positions :
             /\ Cardinality({j \in positions : j < i}) = k - 1
             /\ list[k] = targets[i]

\* C28: with priority monitoring enabled a selection made in Degraded mode
\* returns exactly the targets that are critical or of priority at most 2,
\* and a selection made in Normal or Recovery mode returns every registered
\* target; with priority monitoring disabled a selection returns every
\* registered target in every mode
C28_SelectionByMode ==
    \A t \in Threads :
        JustSelected(t) =>
            IF fallback_strategy.enable_priority_monitoring
            THEN /\ monitoring_mode = MODE_DEGRADED
                     => ExactlyAtPositions(IteratedList(t), PriorityPositions)
                 /\ monitoring_mode \in {NORMAL, RECOVERY}
                     => ExactlyAtPositions(IteratedList(t), DOMAIN targets)
            ELSE ExactlyAtPositions(IteratedList(t), DOMAIN targets)

\* A selection in Degraded mode has returned a non-critical target of
\* priority 2 and the critical target, and left the target of priority 3 out
C28_Witness ==
    \E t \in Threads :
        /\ JustSelected(t)
        /\ fallback_strategy.enable_priority_monitoring
        /\ monitoring_mode = MODE_DEGRADED
        /\ targets = <<TargetC, TargetD, TargetA>>
        /\ IteratedList(t) = <<TargetC, TargetA>>

\* The step of thread t is the call of _get_adaptive_interval before the sleep
ChoosesInterval(t) == pc[t] = "interval" /\ pc'[t] = "sleep"

\* The base interval the strategy gives for the mode
BaseOf(mode) ==
    CASE mode = NORMAL -> fallback_strategy.normal_interval
      [] mode = MODE_DEGRADED -> fallback_strategy.degraded_interval
      [] mode = FAILURE -> fallback_strategy.failure_interval
      [] mode = RECOVERY -> fallback_strategy.recovery_interval

\* The larger mode_change_count values the backoff factor is compared at
CountsAhead == 0 .. 2 * CountCap

\* C29: with adaptive backoff enabled the interval chosen after a cycle is
\* the base interval of the mode times min(1 + 0.2 * mode_change_count,
\* max_backoff_multiplier) when the last mode change is less than 300
\* seconds old and the base interval otherwise; it lies between the base
\* interval and max_backoff_multiplier times the base interval, and does not
\* decrease when mode_change_count grows
C29_AdaptiveInterval ==
    [][\A t \in Threads :
        (ChoosesInterval(t) /\ fallback_strategy.enable_adaptive_backoff) =>
            LET base == BaseOf(monitoring_mode)
                cap == fallback_strategy.max_backoff_multiplier
                grown == 10 + 2 * mode_change_count
                chosen == loc'[t].sleep_interval
            IN  /\ 10 * chosen =
                      IF mode_change_age < 300
                      THEN base * (IF grown < 10 * cap THEN grown ELSE 10 * cap)
                      ELSE 10 * base
                /\ base <= chosen /\ chosen <= base * cap
                /\ \A c \in CountsAhead :
                      GetAdaptiveInterval(fallback_strategy, monitoring_mode,
                                          c, mode_change_age)
                        <= GetAdaptiveInterval(fallback_strategy, monitoring_mode,
                                               c + 1, mode_change_age)]_vars

\* The loop sleeps the plain base interval of Degraded mode although
\* mode_change_count is positive: the last mode change is 300 seconds old
C29_Witness ==
    \E t \in Threads :
        /\ pc[t] = "sleep"
        /\ fallback_strategy.enable_adaptive_backoff
        /\ fallback_strategy.max_backoff_multiplier = 3
        /\ monitoring_mode = MODE_DEGRADED
        /\ mode_change_count > 0
        /\ mode_change_age >= RecentChange
        /\ loc[t].sleep_interval = fallback_strategy.degraded_interval

-----------------------------------------------------------------------------
(* Properties of the status rating (SeqSpec) *)

\* C30: after a metrics update the status of the target is Failing when
\* consecutive_failures has reached failure_threshold, else Degraded when
\* it has reached degraded_threshold, else Healthy when
\* consecutive_successes has reached recovery_threshold, else the status
\* it had before; no step takes a target from Failing or Degraded to
\* Healthy with a success streak below recovery_threshold
C30_StatusThresholds ==
    [][/\ \A t \in Threads :
            UpdatesMetrics(t) =>
                LET before == target_metrics[loc[t].target.name]
                    after == target_metrics'[loc[t].target.name]
                IN  after.current_status =
                       CASE after.consecutive_failures
                                >= fallback_strategy.failure_threshold -> FAILING
                         [] after.consecutive_failures
                                < fallback_strategy.failure_threshold
                            /\ after.consecutive_failures
                                >= fallback_strategy.degraded_threshold -> DEGRADED
                         [] after.consecutive_failures
                                < fallback_strategy.failure_threshold
                            /\ after.consecutive_failures
                                < fallback_strategy.degraded_threshold
                            /\ after.consecutive_successes
                                >= fallback_strategy.recovery_threshold -> HEALTHY
                         [] OTHER -> before.current_status
       /\ \A n \in DOMAIN target_metrics \cap DOMAIN target_metrics' :
            (target_metrics[n].current_status \in {FAILING, DEGRADED}
                /\ target_metrics'[n].current_status = HEALTHY)
            => target_metrics'[n].consecutive_successes
                  >= fallback_strategy.recovery_threshold]_vars

\* Four failures and then three successes: the target was Failing and its
\* third success in a row has just rated it Healthy
C30_Witness ==
    \E t \in Threads :
        /\ pc[t] = "for"
        /\ loc[t].idx > 0
        /\ loc[t].target.name \in DOMAIN target_metrics
        /\ LET m == target_metrics[loc[t].target.name]
           IN  /\ m.current_status = HEALTHY
               /\ m.total_tests = 7
               /\ m.failed_tests = 4
               /\ m.consecutive_successes = fallback_strategy.recovery_threshold

-----------------------------------------------------------------------------
(* Properties of the response time average (LongSpec) *)

\* C31: after a metrics update average_response_time is the mean response
\* time of the successful results in the window of the target, and 0.0, the
\* value of a record without successes, when the window holds none
C31_AverageOverWindow ==
    [][\A t \in Threads :
        UpdatesMetrics(t) =>
            LET after == target_metrics'[loc[t].target.name]
                q == after.recent_tests
                successes == {i \in DOMAIN q : q[i].success}
                average == after.average_response_time
            IN  IF successes # {}
                THEN average.sum * Cardinality(successes)
                        = SumSuccessfulTimes(q, TimesIn(q)) * average.n
                ELSE average.sum = 0]_vars

-----------------------------------------------------------------------------
(* Properties of the cascade under a configured strategy (CascadeSpec) *)

\* C32: after a cascade whose primary probe succeeded, or one made with
\* endpoint fallback disabled, the result is the result of the primary
\* probe (its outcome, its response time, its error) and the primary host
\* is the only host probed
C32_PrimaryResultReturned ==
    \A t \in Threads :
        (JustProbed(t)
            /\ (loc[t].answers[1] \/ ~fallback_strategy.enable_endpoint_fallback))
        => /\ loc[t].probed = <<loc[t].target.host>>
           /\ Len(loc[t].answers) = 1
           /\ loc[t].test_result.success = loc[t].answers[1]
           /\ loc[t].test_result.response_time = loc[t].times[loc[t].target.host]
           /\ loc[t].test_result.error =
                 IF loc[t].answers[1] THEN None
                 ELSE <<"connection failed:", loc[t].target.host>>

\* With endpoint fallback disabled the primary host of a target with two
\* fallback hosts failed, and the failure was returned at once
C32_Witness ==
    \E t \in Threads :
        /\ JustProbed(t)
        /\ ~fallback_strategy.enable_endpoint_fallback
        /\ Len(loc[t].target.fallback_hosts) = 2
        /\ loc[t].answers = <<FALSE>>
        /\ loc[t].probed = <<loc[t].target.host>>
        /\ ~loc[t].test_result.success
        /\ loc[t].test_result.response_time = 3

-----------------------------------------------------------------------------
(* Properties of the order of the steps of an iteration (Spec, SeqSpec) *)

\* A probe begins when every target tested before has been recorded, and
\* the result of a probe is recorded before anything else is tested
OneAtATime(t) ==
    /\ pc[t] = "probe" => loc[t].recorded = loc[t].tested
    /\ pc[t] = "update" =>
          loc[t].tested = Append(loc[t].recorded, loc[t].target.name)

\* The aggregation has run only after every selected target that is still
\* registered was recorded, and nothing else was recorded
AggregatedAfterAll(t) ==
    pc[t] \in {"mode", "interval"} =>
        /\ \A n \in loc[t].registered :
              Count(loc[t].recorded, n) = Count(loc[t].selected, n)
        /\ \A i \in DOMAIN loc[t].recorded :
              \E j \in DOMAIN loc[t].selected :
                 loc[t].selected[j] = loc[t].recorded[i]

\* The mode update reads the status this iteration has computed
ModeFromStatus(t) == pc[t] = "mode" => overall_status = loc[t].status

\* The interval is computed from the mode this iteration has set
IntervalFromMode(t) == pc[t] = "interval" => monitoring_mode = loc[t].new_mode

\* C33: in every iteration the targets are probed one at a time and each
\* result is recorded before the next probe begins, the aggregation runs
\* after all selected targets are recorded, the mode update uses the status
\* of the same iteration and the interval the mode of the same iteration
C33_StepsInOrder ==
    \A t \in Threads :
        /\ OneAtATime(t)
        /\ AggregatedAfterAll(t)
        /\ ModeFromStatus(t)
        /\ IntervalFromMode(t)

\* C34: while a cycle runs and when its for loop is exhausted, the record
\* of every target registered since the cycle began has one test more than
\* at the beginning of the cycle if the cycle has tested the target, and
\* as many otherwise
C34_OneResultPerCycle ==
    \A t \in Threads :
        pc[t] \in {"for", "aggregate"} =>
            \A n \in loc[t].registered \cap DOMAIN loc[t].totals
                                        \cap DOMAIN target_metrics :
                target_metrics[n].total_tests =
                    loc[t].totals[n] + (IF Count(loc[t].tested, n) > 0 THEN 1 ELSE 0)


-----------------------------------------------------------------------------
(* The status report *)

\* failure_rate_percent and success_rate_percent, as exact ratios
SuccessRatePercent(metrics) ==
    IF metrics.total_tests = 0 THEN [num |-> 100, den |-> 1]
    ELSE [num |-> 100 * (metrics.total_tests - metrics.failed_tests),
          den |-> metrics.total_tests]

\* The entry get_network_status builds for one target
TargetStatusEntry(target, metrics) ==
    [status |-> metrics.current_status,
     host |-> target.host,
     critical |-> target.critical,
     priority |-> target.priority,
     success_rate |-> SuccessRatePercent(metrics),
     average_response_time |-> metrics.average_response_time,
     consecutive_failures |-> metrics.consecutive_failures,
     consecutive_successes |-> metrics.consecutive_successes,
     total_tests |-> metrics.total_tests,
     uptime_percent |-> metrics.uptime_percent,
     fallback_hosts |-> target.fallback_hosts,
     recent_fallback_usage |-> RecentFallbackSuccesses(metrics, 10),
     using_fallback |-> RecentFallbackSuccesses(metrics, 10) > 0]

\* target_statuses: the entries by name; of two targets of one name the later
\* one overwrites the entry
TargetStatuses(tgs, tm) ==
    [n \in {tgs[i].name : i \in DOMAIN tgs} |->
        LET last == CHOOSE i \in DOMAIN tgs :
                        /\ tgs[i].name = n
                        /\ \A j \in DOMAIN tgs : tgs[j].name = n => j <= i
        IN  TargetStatusEntry(tgs[last], tm[n])]

\* The summary of the report
StatusSummary(tgs, tm) ==
    [total_targets |-> Len(tgs),
     healthy_targets |->
        Cardinality({i \in DOMAIN tgs : tm[tgs[i].name].current_status = HEALTHY}),
     failing_targets |->
        Cardinality({i \in DOMAIN tgs : tm[tgs[i].name].current_status = FAILING}),
     critical_targets |-> Cardinality({i \in DOMAIN tgs : tgs[i].critical}),
     using_fallback |->
        Cardinality({i \in DOMAIN tgs :
                        RecentFallbackSuccesses(tm[tgs[i].name], 5) > 0})]

\* get_network_status(): what the locked section returns, or the KeyError
\* it raises for a registered target without a metrics record
GetNetworkStatus ==
    IF ~MetricsComplete(targets, target_metrics) THEN [raised |-> "KeyError"]
    ELSE [raised |-> "None",
          overall_status |-> overall_status,
          monitoring_mode |-> monitoring_mode,
          current_interval |-> current_interval,
          monitoring_active |-> running,
          check_interval |-> check_interval,
          targets |-> TargetStatuses(targets, target_metrics),
          fallback_strategy |->
              [adaptive_intervals |-> fallback_strategy.enable_adaptive_backoff,
               priority_monitoring |-> fallback_strategy.enable_priority_monitoring,
               endpoint_fallback |-> fallback_strategy.enable_endpoint_fallback,
               mode_changes |-> mode_change_count],
          summary |-> StatusSummary(targets, target_metrics)]

\* get_fallback_status(): read without the lock
GetFallbackStatus ==
    [monitoring_mode |-> monitoring_mode,
     current_interval |-> current_interval,
     mode_change_count |-> mode_change_count,
     time_since_mode_change |-> mode_change_age,
     strategy |-> fallback_strategy]

-----------------------------------------------------------------------------
(* The monitor with its loop and a caller of run_immediate_test *)

QuietRegistries == {<<TargetB>>, <<TargetA, TargetC>>}

\* As SeqInit, for QuietAttempts connection attempts and QuietCalls calls of
\* run_immediate_test
QuietInit ==
    /\ targets \in QuietRegistries
    /\ target_metrics = FreshMetrics(targets)
    /\ overall_status = UNKNOWN
    /\ monitoring_mode = NORMAL
    /\ mode_change_count = 0
    /\ mode_change_age = 0
    /\ fallback_strategy = FallbackStrategy
    /\ current_interval = fallback_strategy.normal_interval
    /\ running = TRUE
    /\ monitor_thread = 1
    /\ pc = [t \in Threads |-> IF t = 1 THEN "while" ELSE "none"]
    /\ loc = [t \in Threads |-> InitLoc]
    /\ caller_pc = "idle"
    /\ call = [NoCall EXCEPT !.op = "start_monitoring"]
    /\ attempts = 0
    /\ calls = 0
    /\ lock = Unlocked
    /\ limits = [attempts |-> QuietAttempts, calls |-> QuietCalls,
                 settles |-> FALSE, count |-> 0,
                 times |-> {1}]

QuietNext ==
    \/ \E t \in Threads : LoopStep(t)
    \/ RunImmediateTest
    \/ ImmediateProbe
    \/ ImmediateReturn

QuietSpec == QuietInit /\ [][QuietNext]_vars

-----------------------------------------------------------------------------
(* Properties of the immediate test (QuietSpec) *)

\* A step of run_immediate_test: the call, one cascade, or the return
ImmediateStep ==
    /\ call' # call
    /\ \/ caller_pc = "immediate"
       \/ caller_pc' = "immediate"

\* C35: a step of run_immediate_test changes no metrics record and no
\* window, leaves the registry, overall_status, monitoring_mode,
\* mode_change_count and the time of the last mode change as they are, and
\* get_network_status returns the same data after the step as before it
C35_ImmediateTestReadOnly ==
    [][ImmediateStep =>
          /\ UNCHANGED <<targets, target_metrics, overall_status,
                         monitoring_mode, mode_change_count, mode_change_age>>
          /\ GetNetworkStatus' = GetNetworkStatus]_vars

\* An immediate test has returned the results of its cascades while the
\* records hold recorded results and a verdict has been given
C35_Witness ==
    /\ ImmediateReturned
    /\ Len(call.probes) = Len(targets)
    /\ \E n \in DOMAIN target_metrics :
          /\ target_metrics[n].total_tests > 0
          /\ RecentFallbackSuccesses(target_metrics[n], 10) > 0
    /\ overall_status # UNKNOWN
    /\ \E n \in DOMAIN call.results : call.results[n].used_fallback = "True"

-----------------------------------------------------------------------------
(* Properties of the status report (SeqSpec) *)

\* C36: in every report of get_network_status the summary's using_fallback
\* is the number of targets whose own using_fallback flag is true
C36_FallbackUsageConsistent ==
    LET report == GetNetworkStatus
    IN  report.raised = "None" =>
            report.summary.using_fallback =
                Cardinality({n \in DOMAIN report.targets :
                                report.targets[n].using_fallback})

\* C37: when an iteration of the loop completes and the loop has computed
\* the interval of its next sleep, the current_interval published by
\* get_network_status and get_fallback_status is that interval
C37_PublishedIntervalCurrent ==
    [][\A t \in Threads :
          (pc[t] = "interval" /\ pc'[t] = "sleep") =>
              /\ GetNetworkStatus'.raised = "None" =>
                    GetNetworkStatus'.current_interval = loc'[t].sleep_interval
              /\ GetFallbackStatus'.current_interval = loc'[t].sleep_interval]_vars

-----------------------------------------------------------------------------
(* Properties of the weight of critical targets (SeqSpec) *)

\* C38: an aggregation made while no critical target is Failing gives the
\* verdict Healthy or Degraded, however many other targets are Failing, and
\* the mode update that follows it does not give the mode Failure
C38_OnlyCriticalTargetsFail ==
    [][\A t \in Threads :
          /\ (pc[t] = "aggregate" /\ pc'[t] = "mode" /\ FailingCritical = {}) =>
                overall_status' \in {HEALTHY, DEGRADED}
          /\ (UpdatesMode(t) /\ FailingCritical = {}
                /\ loc[t].status \in {HEALTHY, DEGRADED}) =>
                monitoring_mode' # FAILURE]_vars

\* An aggregation has been made while a target that is not critical was
\* Failing and no critical target was
C38_Witness ==
    \E t \in Threads :
        /\ pc[t] = "interval"
        /\ FailingCritical = {}
        /\ \E tg \in Registered : ~tg.critical /\ StatusOf(tg) = FAILING
        /\ overall_status = DEGRADED
        /\ monitoring_mode = MODE_DEGRADED

-----------------------------------------------------------------------------
(* The lock: the loop and a caller with every with statement as steps *)

\* As LockPath, get_health_summary taking the lock around its call
LockPath_SummaryLocked(method) ==
    IF method \in {"add_target", "remove_target", "get_network_status",
                   "_update_target_metrics", "_update_overall_status"}
    THEN <<method>>
    ELSE IF method = "get_health_summary"
         THEN <<"get_health_summary", "get_network_status">>
    ELSE <<>>

\* As LockPath, the cascade run under the lock
LockPath_ProbeLocked(method) ==
    IF method \in {"add_target", "remove_target", "get_network_status",
                   "_update_target_metrics", "_update_overall_status",
                   "_test_target_with_fallback"}
    THEN <<method>>
    ELSE IF method = "get_health_summary" THEN <<"get_network_status">>
    ELSE <<>>

\* The with self._lock statements a call of the method enters, the
\* outermost first: its own and those of the methods it calls
LockPath(method) ==
    IF method \in {"add_target", "remove_target", "get_network_status",
                   "_update_target_metrics", "_update_overall_status"}
    THEN <<method>>
    ELSE IF method = "get_health_summary" THEN <<"get_network_status">>
    ELSE <<>>

\* The method a loop thread calls next at a position
MethodAt(position) ==
    IF position = "probe" THEN "_test_target_with_fallback"
    ELSE IF position \in {"update", "record_failed"} THEN "_update_target_metrics"
    ELSE IF position = "aggregate" THEN "_update_overall_status"
    ELSE IF position = "mode" THEN "_update_monitoring_mode"
    ELSE IF position = "interval" THEN "_get_adaptive_interval"
    ELSE "none"

Holders == Threads \cup {Caller}

\* The with statements who is about to enter
PathOf(who) ==
    IF who = Caller THEN LockPath(lock.op.name)
    ELSE LockPath(MethodAt(pc[who]))

\* Where who is: it changes when the body of a with statement has run
Mark(who) == IF who = Caller THEN <<"caller", calls>> ELSE <<pc[who], 0>>

\* who has entered every with statement of its path and not run the body
InBody(who) ==
    /\ lock.holder = who
    /\ lock.mark = Mark(who)
    /\ lock.acquired = Len(PathOf(who))

\* who holds the lock and is blocked in acquire() for a with statement
\* nested in the one it has entered
Reacquiring(who) ==
    /\ lock.holder = who
    /\ lock.mark = Mark(who)
    /\ lock.acquired < Len(PathOf(who))

\* self._lock.acquire() on entry of a with statement: blocks while the lock
\* is held, by anyone
Acquire(who) ==
    /\ PathOf(who) # <<>>
    /\ lock.holder = Free
    /\ lock' = [lock EXCEPT !.holder = who, !.acquired = 1, !.mark = Mark(who)]
    /\ UNCHANGED <<targets, target_metrics, overall_status, monitoring_mode,
                   mode_change_count, mode_change_age, current_interval,
                   fallback_strategy, running, monitor_thread, pc, loc,
                   caller_pc, call, attempts, calls, limits>>

\* self._lock.release() on exit of the with statement, after the body has
\* returned or raised
Release(who) ==
    /\ lock.holder = who
    /\ lock.mark # Mark(who)
    /\ lock' = [lock EXCEPT !.holder = Free, !.acquired = 0,
                            !.mark = Unlocked.mark,
                            !.op = IF who = Caller THEN NoOp ELSE @]
    /\ UNCHANGED <<targets, target_metrics, overall_status, monitoring_mode,
                   mode_change_count, mode_change_age, current_interval,
                   fallback_strategy, running, monitor_thread, pc, loc,
                   caller_pc, call, attempts, calls, limits>>

\* The caller calls a method that takes the lock and reaches its with
\* statement
Enter(op) ==
    /\ caller_pc = "idle"
    /\ lock.op = NoOp
    /\ calls < limits.calls
    /\ op.name = "add_target" => Len(targets) < MaxTargets
    /\ lock' = [lock EXCEPT !.op = op]
    /\ UNCHANGED <<targets, target_metrics, overall_status, monitoring_mode,
                   mode_change_count, mode_change_age, current_interval,
                   fallback_strategy, running, monitor_thread, pc, loc,
                   caller_pc, call, attempts, calls, limits>>

\* The targets the caller adds and removes
LockPool == {TargetA}

LockedOps ==
    {[NoOp EXCEPT !.name = "add_target", !.target = tg] : tg \in LockPool}
    \cup {[NoOp EXCEPT !.name = "remove_target", !.target_name = tg.name] :
             tg \in LockPool}
    \cup {[NoOp EXCEPT !.name = m] : m \in {"get_network_status", "get_health_summary"}}

\* The body of get_network_status, called directly or by get_health_summary
ReportStatus(method) ==
    /\ caller_pc = "idle"
    /\ calls < limits.calls
    /\ call' = [NoCall EXCEPT
                  !.op = method,
                  !.result = IF GetNetworkStatus.raised = "KeyError" THEN "KeyError"
                             ELSE IF method = "get_health_summary" THEN "summary"
                             ELSE "report"]
    /\ calls' = calls + 1
    /\ UNCHANGED <<targets, target_metrics, overall_status, monitoring_mode,
                   mode_change_count, mode_change_age, current_interval,
                   fallback_strategy, running, monitor_thread, pc, loc,
                   caller_pc, attempts, limits, lock>>

\* The bodies of the with statements of the caller
CallerBody ==
    /\ InBody(Caller)
    /\ \/ lock.op.name = "add_target" /\ AddTarget(lock.op.target)
       \/ lock.op.name = "remove_target" /\ RemoveTarget(lock.op.target_name)
       \/ /\ lock.op.name \in {"get_network_status", "get_health_summary"}
          /\ ReportStatus(lock.op.name)

\* run_immediate_test, which enters no with statement
CallerUnlocked ==
    /\ lock.op = NoOp
    /\ lock.holder # Caller
    /\ RunImmediateTest \/ ImmediateProbe \/ ImmediateReturn

\* The bodies of the with statements of the loop
LoopBody(t) ==
    /\ InBody(t)
    /\ UpdateMetrics(t) \/ RecordFailedTest(t) \/ UpdateStatus(t)

\* The steps of the loop outside every with statement
LoopUnlocked(t) ==
    /\ PathOf(t) = <<>>
    /\ lock.holder # t
    /\ \/ LoopHead(t) \/ NextTarget(t) \/ ProbeTarget(t)
       \/ UpdateMode(t) \/ Sleep(t) \/ Wake(t)

LockInit ==
    /\ targets = InitTargets
    /\ target_metrics = FreshMetrics(targets)
    /\ overall_status = UNKNOWN
    /\ monitoring_mode = NORMAL
    /\ mode_change_count = 0
    /\ mode_change_age = 0
    /\ fallback_strategy = FallbackStrategy
    /\ current_interval = fallback_strategy.normal_interval
    /\ running = TRUE
    /\ monitor_thread = 1
    /\ pc = [t \in Threads |-> IF t = 1 THEN "while" ELSE "none"]
    /\ loc = [t \in Threads |-> InitLoc]
    /\ caller_pc = "idle"
    /\ call = [NoCall EXCEPT !.op = "start_monitoring"]
    /\ attempts = 0
    /\ calls = 0
    /\ lock = Unlocked
    /\ limits = [attempts |-> LockAttempts, calls |-> LockCalls,
                 settles |-> FALSE, count |-> 0,
                 times |-> {1}]

LockNext ==
    \/ \E op \in LockedOps : Enter(op)
    \/ \E who \in Holders : Acquire(who) \/ Release(who)
    \/ CallerBody
    \/ CallerUnlocked
    \/ \E t \in Threads : LoopBody(t) \/ LoopUnlocked(t)

\* A thread blocked in acquire() enters when the lock is released often
\* enough; a thread that is not blocked goes on
LockSpec ==
    /\ LockInit
    /\ [][LockNext]_vars
    /\ \A who \in Holders : SF_vars(Acquire(who)) /\ WF_vars(Release(who))
    /\ WF_vars(CallerBody)
    /\ \A t \in Threads : WF_vars(LoopBody(t) \/ LoopUnlocked(t))

-----------------------------------------------------------------------------
(* Properties of the lock (LockSpec) *)

\* C39: no thread is ever blocked acquiring the lock it holds itself, the
\* caller of get_health_summary included, and whenever a thread holds the
\* lock the lock is released later, also when the body of the with
\* statement raised
C39_NoSelfDeadlock ==
    /\ [](\A who \in Holders : ~Reacquiring(who))
    /\ \A who \in Holders : (lock.holder = who) ~> (lock.holder # who)

\* The loop has released the lock after the KeyError that both calls of
\* _update_target_metrics raised for a target removed during the cycle
C39_Witness ==
    /\ lock.holder = Free
    /\ \E t \in Threads :
          /\ loc[t].raised
          /\ pc[t] = "sleep"
          /\ loc[t].test_result.error = <<"KeyError:", loc[t].target.name>>
    /\ call.op = "remove_target"

\* C40: a thread running a connectivity probe, in the loop or in
\* run_immediate_test, does not hold the lock, and a caller that has reached
\* the with statement of add_target, remove_target or get_network_status
\* returns
C40_ProbesOutsideLock ==
    /\ [](/\ \A t \in Threads : pc[t] = "probe" => lock.holder # t
          /\ caller_pc = "immediate" => lock.holder # Caller)
    /\ (lock.op.name \in {"add_target", "remove_target", "get_network_status"})
          ~> (lock.op = NoOp)

\* The caller has run the body of a with statement while a probe of the
\* loop was in progress
C40_Witness ==
    /\ \E t \in Threads : pc[t] = "probe"
    /\ lock.holder = Caller
    /\ lock.mark # Mark(Caller)
    /\ lock.op.name \in {"add_target", "remove_target", "get_network_status"}
====
